---------------------------- MODULE Spec2Model ----------------------------
(***************************************************************************)
(* The streaming capture-to-codec pipeline of screenshot-webp              *)
(* (src/native/ultra_streaming_pipeline.cc): one UltraStreamingPipeline    *)
(* with its worker threads, task queue, in-flight memory counter and       *)
(* statistics, and the capture-and-encode requests that run on it.         *)
(*                                                                         *)
(* After it, the reference-counted ZeroCopyBuffer of                       *)
(* src/native/zero_copy_optimizer.cc and the ScreenshotMemoryPool of       *)
(* src/native/memory_pool.cc, each with a specification of its own.        *)
(* The pipeline's setters have ConfigSpec, and its pure functions          *)
(* (CreateChunks and the two container composers) have FunctionSpec.       *)
(* The pixel converters of src/native/simd_converter.cc have               *)
(* ConverterSpec.  LifecycleSpec follows Initialize, the workers' wait     *)
(* and the destructor, and ThreadSpec the threads of a request lock by     *)
(* lock; each has a variant under fair scheduling.                         *)
(* uint32_t values whose arithmetic can wrap are pairs of 16-bit limbs.    *)
(*                                                                         *)
(* Sizes are the program's own numbers (pixels, bytes, megabytes).         *)
(* Percentages passed to the progress callback are doubles in the source;  *)
(* here they are integers in thousandths of a percent (Pct).               *)
(***************************************************************************)
EXTENDS Integers, Sequences, FiniteSets, TLC

(* ------------------------------ bounds --------------------------------- *)

\* Most worker threads Initialize is asked for.
MaxWorkers == 2

\* Displays of one StreamCaptureMultipleDisplays request.
MaxDisplays == 2

(* ------------------------- program constants --------------------------- *)

\* ultra_large_threshold = 7680 * 4320
ThresholdWidth == 7680
ThresholdHeight == 4320
ThresholdPlusOne == ThresholdWidth * ThresholdHeight + 1
ultra_large_threshold == ThresholdWidth * ThresholdHeight

\* SetChunkSize / SetMaxMemoryUsage / SetCompressionLevel clamps
MinChunkDim == 64
MinMemoryMB == 256
MinCompressionLevel == 1
MaxCompressionLevel == 9

BytesPerPixel == 4

\* Numbers wider than 31 bits (uint32_t, size_t) are written in limbs of 16
\* bits, the most significant first.
LimbBase == 65536

(* ------------------------------ inputs --------------------------------- *)

\* Frames the capture backend may deliver: <<width, height>>.  The first is
\* below the 8K threshold and the second exactly at it; the others tile into
\* 1, 2 and 3 chunks of the configured 8192 x 8192 tile, the last column or
\* row being clipped.
SmallFrame == <<1920, 1080>>
LargeFrames == {<<7680, 4320>>, <<8192, 8192>>, <<12288, 8192>>, <<8192, 20480>>}
Frames == {SmallFrame} \cup LargeFrames

\* Frames of a multi-display request.
MultiFrames == {SmallFrame, <<8192, 8192>>, <<12288, 8192>>}

\* Arguments of ConfigureUltraStreaming: <<chunk_width, chunk_height,
\* max_memory_mb, compression_level>>.  With the first a full tile is exactly
\* the budget (256 MB); with the last a full tile (512 MB) is larger than the
\* budget.
Configs == {<<8192, 8192, 256, 6>>, <<8192, 8192, 1024, 6>>, <<16384, 8192, 256, 6>>}

Slots == 0 .. (MaxDisplays - 1)
Workers == 1 .. MaxWorkers

(* --------------------------- pure functions ---------------------------- *)

Min(a, b) == IF a < b THEN a ELSE b
Max(a, b) == IF a > b THEN a ELSE b

\* A percentage, in thousandths of a percent.
Pct(x) == x * 1000

\* The bytes of a 32-bit value, least significant first (memcpy of a uint32_t
\* on a little-endian build).
LE32(n) == << n % 256, (n \div 256) % 256, (n \div 65536) % 256, (n \div 16777216) % 256 >>

RECURSIVE Concat(_)
Concat(ss) == IF ss = << >> THEN << >> ELSE Head(ss) \o Concat(Tail(ss))

(* uint32_t: two limbs.  The arithmetic is modulo 2^32, as the build's. *)

\* The uint32_t of a number below 2^31.
UInt32(n) == << n \div LimbBase, n % LimbBase >>

UINT32_MAX == << LimbBase - 1, LimbBase - 1 >>

\* The number that a uint32_t below 2^31 holds.
Value(u) == u[1] * LimbBase + u[2]

\* a + b
U32Add(a, b) ==
    << (a[1] + b[1] + (a[2] + b[2]) \div LimbBase) % LimbBase, (a[2] + b[2]) % LimbBase >>

\* a - b
U32Sub(a, b) ==
    LET borrow == IF a[2] < b[2] THEN 1 ELSE 0
    IN  << (a[1] - b[1] - borrow + 2 * LimbBase) % LimbBase,
           (a[2] - b[2] + LimbBase) % LimbBase >>

\* a < b
U32Less(a, b) == a[1] < b[1] \/ (a[1] = b[1] /\ a[2] < b[2])

\* The product of two limbs, as << high limb, low limb >>.
LimbMul(a, b) ==
    LET t == a * (b \div 256)
        low == (t % 256) * 256 + a * (b % 256)
    IN  << (t \div 256 + low \div LimbBase) % LimbBase, low % LimbBase >>

\* a * b
U32Mul(a, b) ==
    LET p == LimbMul(a[2], b[2])
    IN  << (p[1] + LimbMul(a[1], b[2])[2] + LimbMul(a[2], b[1])[2]) % LimbBase, p[2] >>

\* a / b, for b > 0
RECURSIVE U32Div(_, _)
U32Div(a, b) ==
    IF a[1] < LimbBase \div 2 /\ b[1] < LimbBase \div 2
      THEN UInt32(Value(a) \div Value(b))
    ELSE IF U32Less(a, b) THEN UInt32(0)
    ELSE U32Add(UInt32(1), U32Div(U32Sub(a, b), b))

U32MinFirst(a, b) == a

\* std::min(a, b)
U32Min(a, b) == IF U32Less(b, a) THEN b ELSE a

\* std::max(a, b)
U32Max(a, b) == IF U32Less(a, b) THEN b ELSE a

KeepChunkDim(v) == v

\* SetChunkSize: std::max(64u, v)
ClampChunkDim(v) == U32Max(UInt32(MinChunkDim), v)

\* SetMaxMemoryUsage: std::max(256ULL, v)
ClampMemoryMB(v) == Max(MinMemoryMB, v)

\* SetCompressionLevel: std::clamp(level, 1, 9)
ClampLevel(level) == Max(MinCompressionLevel, Min(MaxCompressionLevel, level))

IsFinalChunkOfRow(x, y, chunks_x, chunks_y) == x = chunks_x - 1

\* chunk.is_final_chunk = (x == chunks_x - 1 && y == chunks_y - 1)
IsFinalChunk(x, y, chunks_x, chunks_y) == x = chunks_x - 1 /\ y = chunks_y - 1

\* CreateChunks: the row-major grid of tiles of a width x height frame, each
\* clipped to the frame.  The k-th chunk (k from 1) is tile x = (k-1) %
\* chunks_x of row y = (k-1) \div chunks_x, as the nested loops emit it.  The
\* arguments are uint32_t and so is all the arithmetic; a chunk's fields are
\* written as the numbers they hold (below 2^31 for a frame below 2^29 a
\* side).  chunks_x and chunks_y are computed once, before the loops.
CreateChunks(width, height, chunk_width, chunk_height) ==
    LET Loops(chunks_x, chunks_y) ==
          [ k \in 1 .. (chunks_x * chunks_y) |->
              LET x == (k - 1) % chunks_x
                  y == (k - 1) \div chunks_x
                  x_offset == U32Mul(UInt32(x), chunk_width)
                  y_offset == U32Mul(UInt32(y), chunk_height)
                  cwid == U32Min(chunk_width, U32Sub(width, x_offset))
                  chei == U32Min(chunk_height, U32Sub(height, y_offset))
              IN  [ x_offset |-> Value(x_offset),
                    y_offset |-> Value(y_offset),
                    width |-> Value(cwid),
                    height |-> Value(chei),
                    stride |-> Value(U32Mul(cwid, UInt32(BytesPerPixel))),
                    chunk_id |-> k - 1,
                    is_final_chunk |-> IsFinalChunk(x, y, chunks_x, chunks_y) ] ]
        counts ==
          << Value(U32Div(U32Sub(U32Add(width, chunk_width), UInt32(1)), chunk_width)),
             Value(U32Div(U32Sub(U32Add(height, chunk_height), UInt32(1)), chunk_height)) >>
    IN  CHOOSE chunks_made \in { Loops(n[1], n[2]) : n \in { counts } } : TRUE

\* chunk.width * chunk.height * 4
ChunkMemory(chunk) == chunk.width * chunk.height * 4

\* The codec's output for a chunk when it succeeds: one byte standing for the
\* bytes compressed from that chunk's pixels, different for different chunks.
EncodedBytes(chunk) == << 1 + chunk.chunk_id >>

\* The codec's output for a whole frame (single pass).
EncodedFrame == << 255 >>

\* What EncodeChunkAdvanced can do with a chunk: return bytes, return an
\* empty vector (every encoder stage gave no bytes), or throw.
EncodeOutcomes == {"bytes", "empty", "throw"}

\* "RIFF\0\0\0\0WEBP"
webp_header == << 82, 73, 70, 70, 0, 0, 0, 0, 87, 69, 66, 80 >>

\* CombineEncodedChunks: the header, the payloads in list order, then the
\* size field (total length - 8) written back at offset 4.
CombineEncodedChunks(encoded_chunks, total_width, total_height) ==
    LET body == webp_header \o Concat(encoded_chunks)
        size == LE32(Len(body) - 8)
    IN  [ i \in 1 .. Len(body) |-> IF i \in 5 .. 8 THEN size[i - 4] ELSE body[i] ]

\* The three low bytes of a uint32_t, least significant first:
\* v & 0xFF, (v >> 8) & 0xFF, (v >> 16) & 0xFF.
LE24(v) == << v[2] % 256, v[2] \div 256, v[1] % 256 >>

\* WebPEncoder::CombineEncodedTiles, of the tiles' encoded_data: "RIFF",
\* totalSize (the payloads' bytes + 100), "WEBP", "VP8X", vp8x_size (10),
\* the flags, three reserved bytes, total_width - 1 and total_height - 1 in
\* 24 bits each, then the payloads.
CombineEncodedTiles(tiles, total_width, total_height, has_alpha) ==
    << 82, 73, 70, 70 >> \o LE32(Len(Concat(tiles)) + 100)
      \o << 87, 69, 66, 80 >>
      \o << 86, 80, 56, 88 >> \o LE32(10)
      \o << IF has_alpha THEN 16 ELSE 0, 0, 0, 0 >>
      \o LE24(U32Sub(total_width, UInt32(1)))
      \o LE24(U32Sub(total_height, UInt32(1)))
      \o Concat(tiles)

ChunkProgressPastEnd(k, n) == Pct(20) + (k * Pct(80)) \div n

\* 20.0 + (chunks_submitted / chunks.size()) * 60.0
ChunkProgress(k, n) == Pct(20) + (k * Pct(60)) \div n

\* display_callback: (i + progress / 100.0) / total * 100.0
OverallProgress(i, progress, total) == (i * Pct(100) + progress) \div total

\* task->task_id = static_cast<uint32_t>(chunks_submitted)
TaskId(submitted) == submitted

QueueFrontNotPopped(q) == q

\* task_queue_.pop() after moving out task_queue_.front()
QueueAfterPop(q) == Tail(q)

(* ------------------------------- state --------------------------------- *)

VARIABLES
    chunk_width_,            \* configured tile width, a uint32_t
    chunk_height_,           \* configured tile height
    max_memory_usage_mb_,    \* memory budget, in MB
    compression_level_,      \* compression level
    worker_thread_count_,    \* worker threads started by Initialize
    task_queue_,             \* queued EncodingTasks, front first
    current_memory_usage_,   \* the atomic in-flight memory counter, in bytes
    stats_,                  \* StreamingStats
    worker,                  \* each worker thread: where it is and the task it holds
    total,                   \* displays of the multi-display request; 0: a direct request
    pc,                      \* each request: where its async body is
    screenshot,              \* each request: the captured frame <<width, height>>
    chunks,                  \* each request: the chunks CreateChunks made
    chunks_submitted,        \* each request: chunks_submitted
    futs,                    \* each request: chunk_futures, with each task's result slot
    idx,                     \* each request: the index of the running for loop
    encoded_chunks,          \* each request: encoded_chunks collected so far
    result,                  \* each request: the vector the request returned
    last_progress,           \* each request: the last percentage given to its callback
    stop_requested,          \* each request: the callback has returned false (stop)
                             \*   on the tiling path
    last_overall,            \* the last overall percentage given to the caller's callback
    results                  \* the results StreamCaptureMultipleDisplays collected

config == << chunk_width_, chunk_height_, max_memory_usage_mb_, compression_level_,
            worker_thread_count_, total >>
shared == << task_queue_, current_memory_usage_, stats_, worker >>
reports == << last_progress, stop_requested, last_overall >>
request == << pc, screenshot, chunks, chunks_submitted, futs, idx, encoded_chunks, result >>
pipeline == << config, shared, reports, request, results >>

\* The zero-copy buffer of src/native/zero_copy_optimizer.cc: one parent
\* ZeroCopyBuffer made with std::make_shared, and the views made from it.
VARIABLES
    size_,                   \* the parent's size_, a size_t
    ref_count_,              \* the parent's ref_count_
    use_count,               \* shared_ptr handles that own the parent
    buffer_state,            \* "none", "alive", "destroyed" (~ZeroCopyBuffer has
                             \*   run), or "crashed" (the process has ended)
    deleter_calls,           \* times the parent's deleter_ has run
    views                    \* each CreateView call on the parent, in order: its
                             \*   arguments and what became of the result

zero_copy == << size_, ref_count_, use_count, buffer_state, deleter_calls, views >>

\* The memory pool of src/native/memory_pool.cc and the threads that call it.
VARIABLES
    available_buffers_,      \* the idle buffers, in pool order: BufferInfo
                             \*   [buffer, size, last_used_time]
    pool_stats_,             \* the pool's stats_ (PoolStats)
    mutex_,                  \* the thread that holds the pool's mutex_, or NoThread (0)
    steady_clock,            \* steady_clock::now(), in ms
    caller,                  \* each thread: where it is in GetBuffer, with the
                             \*   call's size and locals
    held                     \* each thread: the buffers it holds

pool == << available_buffers_, pool_stats_, mutex_, steady_clock, caller, held >>

\* What has happened to the pool so far, kept beside it to state what its
\* statistics should say.
VARIABLES
    capacity,                \* the bytes of each buffer the pool has allocated,
                             \*   by buffer (buffers are numbered as created)
    live_peak,               \* the most bytes that allocated buffers not yet
                             \*   freed (held or idle) had at one time
    null_return              \* the last ReturnBuffer call with a null buffer:
                             \*   its size argument, and whether the pool was full

pool_history == << capacity, live_peak, null_return >>

\* One call of a function of the program on its own: CreateChunks,
\* CombineEncodedChunks or CombineEncodedTiles.
VARIABLES
    arguments,               \* the function and the arguments it is called with
    returned                 \* what the call returned

\* The pixel converters of src/native/simd_converter.cc and their caller.
VARIABLES
    memory,                  \* the caller's buffers, by name: their bytes
    g_cpu_info,              \* the vector units the converters may use
    calls                    \* the calls made so far, each with what it did

converter == << memory, g_cpu_info, calls >>

function_call == << arguments, returned, converter >>

\* The pipeline's threads one by one, for the specifications that follow
\* them through their lock scopes and their waits.
VARIABLES
    worker_threads_,         \* the threads Initialize has started, in order: where
                             \*   each is in WorkerThreadMain, and the task it holds
    task_queue_mutex_,       \* the thread that holds task_queue_mutex_, or NoThread (0)
    stats_mutex_,            \* the thread that holds stats_mutex_, or NoThread (0)
    shutdown_requested_,     \* the atomic shutdown flag
    destructor,              \* ~UltraStreamingPipeline: where it is, and the
                             \*   threads it has joined
    hardware_concurrency     \* what std::thread::hardware_concurrency() returns

threads == << worker_threads_, task_queue_mutex_, stats_mutex_, shutdown_requested_,
             destructor, hardware_concurrency >>

other_components == << zero_copy, pool, pool_history, function_call, threads >>
vars == << pipeline, other_components >>

\* No call yet, and nothing returned yet.
NoArguments == [ function |-> "none" ]
NotReturned == [ function |-> "none" ]

\* The caller's buffers, and the null pointer.
BufferNames == { "A", "B", "C" }
NullPointer == "nullptr"

\* No function is called on its own, and the converters' caller has no
\* buffer yet.
NoFunctionCall ==
    /\ arguments = NoArguments
    /\ returned = NotReturned
    /\ memory = [ name \in BufferNames |-> << >> ]
    /\ g_cpu_info = [ has_sse2 |-> FALSE, has_avx2 |-> FALSE, has_neon |-> FALSE ]
    /\ calls = << >>

\* The pipeline's threads are not followed one by one.
NoThreads ==
    /\ worker_threads_ = << >>
    /\ task_queue_mutex_ = 0
    /\ stats_mutex_ = 0
    /\ shutdown_requested_ = FALSE
    /\ destructor = [ pc |-> "none", joined |-> 0 ]
    /\ hardware_concurrency = 0

\* No ZeroCopyBuffer has been made.
NoZeroCopyBuffer ==
    /\ size_ = << 0, 0, 0, 0 >>
    /\ ref_count_ = 0
    /\ use_count = 0
    /\ buffer_state = "none"
    /\ deleter_calls = 0
    /\ views = << >>

\* Threads that call the memory pool; NoThread: the mutex is not held.
Threads == { 1, 2 }
NoThread == 0

\* SIZE_MAX as FindBestFitBuffer returns it for "no index" (indices here
\* start at 1).
NoIndex == 0

\* std::unique_ptr<uint8_t[]>(), the null buffer.
NullBuffer == 0

\* No ReturnBuffer call with a null buffer yet.
NoCall == [ size |-> -1, full |-> FALSE ]

\* A thread that is in no call of the pool.
Idle == [ pc |-> "idle", size |-> 0, current_time |-> 0, best_fit_index |-> NoIndex ]

\* The global pool as its constructor leaves it, no thread in a call.
PoolConstructed ==
    /\ available_buffers_ = << >>
    /\ pool_stats_ = [ available_buffers |-> 0,
                       total_buffers_created |-> 0,
                       total_memory_allocated |-> 0,
                       peak_memory_usage |-> 0,
                       memory_reuse_count |-> 0 ]
    /\ mutex_ = NoThread
    /\ steady_clock = 0
    /\ caller = [ t \in Threads |-> Idle ]
    /\ held = [ t \in Threads |-> { } ]
    /\ capacity = << >>
    /\ live_peak = 0
    /\ null_return = NoCall

NoTask == [ req |-> -1, task_id |-> -1, chunk |-> << >> ]
NoFrame == << 0, 0 >>

ActiveWorkers == 1 .. worker_thread_count_
ActiveSlots == IF total = 0 THEN {0} ELSE 0 .. (total - 1)

\* The state after ConfigureUltraStreaming(cw, ch, mb, level) and
\* Initialize(n), with the requests named by `n_displays` just launched.
InitWith(n_displays, worker_counts) ==
    /\ \E c \in Configs :
         /\ chunk_width_ = ClampChunkDim(UInt32(c[1]))
         /\ chunk_height_ = ClampChunkDim(UInt32(c[2]))
         /\ max_memory_usage_mb_ = ClampMemoryMB(c[3])
         /\ compression_level_ = ClampLevel(c[4])
    /\ worker_thread_count_ \in worker_counts
    /\ task_queue_ = << >>
    /\ current_memory_usage_ = 0
    /\ stats_ = [ total_pixels_processed |-> 0,
                  total_chunks_processed |-> 0,
                  peak_memory_usage_mb |-> 0,
                  compression_ratio |-> 0,
                  active_worker_threads |-> worker_thread_count_ ]
    /\ worker = [ w \in Workers |-> [ pc |-> "idle", task |-> NoTask ] ]
    /\ total = n_displays
    /\ pc = [ d \in Slots |-> IF d < Max(1, n_displays) THEN "start" ELSE "unused" ]
    /\ screenshot = [ d \in Slots |-> NoFrame ]
    /\ chunks = [ d \in Slots |-> << >> ]
    /\ chunks_submitted = [ d \in Slots |-> 0 ]
    /\ futs = [ d \in Slots |-> << >> ]
    /\ idx = [ d \in Slots |-> 0 ]
    /\ encoded_chunks = [ d \in Slots |-> << >> ]
    /\ result = [ d \in Slots |-> << >> ]
    /\ last_progress = [ d \in Slots |-> -1 ]
    /\ stop_requested = [ d \in Slots |-> FALSE ]
    /\ last_overall = -1
    /\ results = << >>

\* The pipeline of the other components' specifications: configured
\* (8192, 8192, 256), one worker, nothing of it running.
PipelineIdle ==
    /\ InitWith(0, {1})
    /\ << chunk_width_, chunk_height_, max_memory_usage_mb_ >> = << UInt32(8192), UInt32(8192), 256 >>

\* One StreamCaptureAndEncode request on an initialized pipeline.
Init == InitWith(0, Workers) /\ NoZeroCopyBuffer /\ PoolConstructed /\ NoFunctionCall /\ NoThreads

\* One StreamCaptureMultipleDisplays request over MaxDisplays displays.
MultiInit ==
    InitWith(MaxDisplays, {1}) /\ NoZeroCopyBuffer /\ PoolConstructed /\ NoFunctionCall /\ NoThreads

(* --------------------------- shared helpers ---------------------------- *)

\* A crash (a null dereference in the standard library) ends the process.
Alive == \A d \in Slots : pc[d] # "crashed"

\* CanAllocateMemory
CanAllocateMemory(requested_bytes) ==
    current_memory_usage_ + requested_bytes <= max_memory_usage_mb_ * 1024 * 1024

\* UpdateMemoryUsage: the counter, then the peak statistic under stats_mutex_.
UpdateMemoryUsage(delta) ==
    LET now == current_memory_usage_ + delta
        current_mb == now \div (1024 * 1024)
    IN  /\ current_memory_usage_' = now
        /\ stats_' = IF current_mb > stats_.peak_memory_usage_mb
                     THEN [ stats_ EXCEPT !.peak_memory_usage_mb = current_mb ]
                     ELSE stats_

\* max_concurrent_chunks
max_concurrent_chunks ==
    Min(worker_thread_count_ * 2,
        (max_memory_usage_mb_ * 1024 * 1024)
          \div Value(U32Mul(U32Mul(chunk_width_, chunk_height_), UInt32(4))))

\* What the user's callback may return: true (go on) or false (stop).  The
\* multi-display request is modelled with a callback that never asks to stop.
CallbackReturns == IF total = 0 THEN BOOLEAN ELSE {TRUE}

\* callback(percent, status) of request d.  Under StreamCaptureMultipleDisplays
\* the callback is display_callback, which rescales and calls the caller's.
\* The value returned is dropped at every call site; `keep` says whether this
\* call's return is recorded in stop_requested.
Report(d, percent, ret, keep) ==
    /\ last_progress' = [ last_progress EXCEPT ![d] = percent ]
    /\ stop_requested' = IF keep /\ ~ret
                         THEN [ stop_requested EXCEPT ![d] = TRUE ]
                         ELSE stop_requested
    /\ last_overall' = IF total > 0 THEN OverallProgress(d, percent, total)
                       ELSE last_overall

\* The catch handler: callback(0.0, "Error: ..."), return {}.
Fail(d) ==
    /\ pc' = [ pc EXCEPT ![d] = "failed" ]
    /\ result' = [ result EXCEPT ![d] = << >> ]
    /\ Report(d, Pct(0), TRUE, FALSE)

(* --------------------------- worker threads ---------------------------- *)

\* The result slot (promise / future shared state) of a task when created.
NewFuture(task_id, chunk) ==
    [ slot |-> "unset",          \* "unset", "value" or "exception"
      payload |-> << >>,         \* the vector set_value stored
      valid |-> TRUE,            \* future::valid(): false once get() has run
      task_id |-> task_id,
      chunk_id |-> chunk.chunk_id,
      takes |-> 0,               \* times a worker took the task
      sets |-> 0,                \* times the result slot was assigned
      reads |-> 0 ]              \* times get() was called on the future

\* WorkerThreadMain: under task_queue_mutex_, move the front task out and pop.
WorkerTake(w) ==
    /\ Alive
    /\ w \in ActiveWorkers
    /\ worker[w].pc = "idle"
    /\ task_queue_ # << >>
    /\ LET task == Head(task_queue_)
       IN  /\ worker' = [ worker EXCEPT ![w] = [ pc |-> "taken", task |-> task ] ]
           /\ task_queue_' = QueueAfterPop(task_queue_)
           /\ futs' = [ futs EXCEPT ![task.req][task.task_id + 1].takes = @ + 1 ]
    /\ UNCHANGED << other_components, config, reports, results, current_memory_usage_, stats_ >>
    /\ UNCHANGED << pc, screenshot, chunks, chunks_submitted, idx, encoded_chunks, result >>

\* ProcessEncodingTask: UpdateMemoryUsage(+chunk_memory).
WorkerBegin(w) ==
    /\ Alive
    /\ worker[w].pc = "taken"
    /\ UpdateMemoryUsage(ChunkMemory(worker[w].task.chunk))
    /\ worker' = [ worker EXCEPT ![w].pc = "counted" ]
    /\ UNCHANGED << other_components, config, reports, results, request, task_queue_ >>

\* ProcessEncodingTask: EncodeChunkAdvanced, then set_value; or, when the
\* encode throws, the catch handler's set_exception, after which the function
\* returns without the second UpdateMemoryUsage.
WorkerEncode(w) ==
    /\ Alive
    /\ worker[w].pc = "counted"
    /\ LET task == worker[w].task
           d == task.req
           i == task.task_id + 1
       IN  \E outcome \in EncodeOutcomes :
             \/ /\ outcome # "throw"
                /\ futs' = [ futs EXCEPT ![d][i] =
                               [ @ EXCEPT !.slot = "value",
                                          !.payload = IF outcome = "bytes"
                                                      THEN EncodedBytes(task.chunk)
                                                      ELSE << >>,
                                          !.sets = @ + 1 ] ]
                /\ worker' = [ worker EXCEPT ![w].pc = "resolved" ]
             \/ /\ outcome = "throw"
                /\ futs' = [ futs EXCEPT ![d][i] =
                               [ @ EXCEPT !.slot = "exception", !.sets = @ + 1 ] ]
                /\ worker' = [ worker EXCEPT ![w] = [ pc |-> "idle", task |-> NoTask ] ]
    /\ UNCHANGED << other_components, config, reports, results, task_queue_, current_memory_usage_, stats_ >>
    /\ UNCHANGED << pc, screenshot, chunks, chunks_submitted, idx, encoded_chunks, result >>

\* ProcessEncodingTask: UpdateMemoryUsage(-chunk_memory), back to the wait.
WorkerFinish(w) ==
    /\ Alive
    /\ worker[w].pc = "resolved"
    /\ UpdateMemoryUsage(-ChunkMemory(worker[w].task.chunk))
    /\ worker' = [ worker EXCEPT ![w] = [ pc |-> "idle", task |-> NoTask ] ]
    /\ UNCHANGED << other_components, config, reports, results, request, task_queue_ >>

(* ------------------- StreamCaptureAndEncode: capture ------------------- *)

CaptureFailedNever(success) == FALSE

\* if (!screenshot.success)
CaptureFailed(success) == ~ success

\* What CaptureDisplay returns: a frame, or no frame with success false.
CapturedFrames(success) ==
    IF success THEN (IF total = 0 THEN Frames ELSE MultiFrames) ELSE { NoFrame }

\* CaptureDisplay.  A failed capture reports 0.0 and returns {}; a captured
\* frame reports 10.0.
Capture(d) ==
    /\ Alive
    /\ pc[d] = "start"
    /\ \E success \in BOOLEAN :
         IF CaptureFailed(success)
           THEN /\ pc' = [ pc EXCEPT ![d] = "failed" ]
                /\ result' = [ result EXCEPT ![d] = << >> ]
                /\ Report(d, Pct(0), TRUE, FALSE)
                /\ UNCHANGED screenshot
           ELSE /\ \E frame \in CapturedFrames(success) :
                     screenshot' = [ screenshot EXCEPT ![d] = frame ]
                /\ pc' = [ pc EXCEPT ![d] = "captured" ]
                /\ Report(d, Pct(10), TRUE, FALSE)
                /\ UNCHANGED result
    /\ UNCHANGED << other_components, config, shared, results >>
    /\ UNCHANGED << chunks, chunks_submitted, futs, idx, encoded_chunks >>

pixel_bytes(d) == screenshot[d][1] * screenshot[d][2] * BytesPerPixel

\* static_cast<uint64_t>(screenshot.width) * screenshot.height
pixel_count(d) == screenshot[d][1] * screenshot[d][2]

\* pixel_count < ultra_large_threshold: callback(50.0, ...).
SinglePassBegin(d) ==
    /\ Alive
    /\ pc[d] = "captured"
    /\ pixel_count(d) < ultra_large_threshold
    /\ pc' = [ pc EXCEPT ![d] = "single" ]
    /\ Report(d, Pct(50), TRUE, FALSE)
    /\ UNCHANGED << other_components, config, shared, results >>
    /\ UNCHANGED << screenshot, chunks, chunks_submitted, futs, idx, encoded_chunks, result >>

\* encoder.EncodeRGBA on the whole frame, callback(100.0, ...), return result.
SinglePassEncode(d) ==
    /\ Alive
    /\ pc[d] = "single"
    /\ \E outcome \in EncodeOutcomes :
         \/ /\ outcome # "throw"
            /\ pc' = [ pc EXCEPT ![d] = "done" ]
            /\ result' = [ result EXCEPT ![d] =
                             IF outcome = "bytes" THEN EncodedFrame ELSE << >> ]
            /\ Report(d, Pct(100), TRUE, FALSE)
         \/ /\ outcome = "throw"
            /\ Fail(d)
    /\ UNCHANGED << other_components, config, shared, results >>
    /\ UNCHANGED << screenshot, chunks, chunks_submitted, futs, idx, encoded_chunks >>

(* ------------------- StreamCaptureAndEncode: tiling -------------------- *)

\* pixel_count >= ultra_large_threshold: callback(15.0, ...).
TilingBegin(d) ==
    /\ Alive
    /\ pc[d] = "captured"
    /\ ~ (pixel_count(d) < ultra_large_threshold)
    /\ pc' = [ pc EXCEPT ![d] = "chunking" ]
    /\ \E ret \in CallbackReturns : Report(d, Pct(15), ret, TRUE)
    /\ UNCHANGED << other_components, config, shared, results >>
    /\ UNCHANGED << screenshot, chunks, chunks_submitted, futs, idx, encoded_chunks, result >>

\* CreateChunks(screenshot) and callback(20.0, ...); or the chunk buffers'
\* allocation throws (std::bad_alloc) and the catch handler runs.
CreateChunksStep(d) ==
    /\ Alive
    /\ pc[d] = "chunking"
    /\ \/ /\ chunks' = [ chunks EXCEPT ![d] =
                           CreateChunks(UInt32(screenshot[d][1]), UInt32(screenshot[d][2]),
                                        chunk_width_, chunk_height_) ]
          /\ pc' = [ pc EXCEPT ![d] = "submit" ]
          /\ \E ret \in CallbackReturns : Report(d, Pct(20), ret, TRUE)
          /\ UNCHANGED result
       \/ /\ Fail(d)
          /\ UNCHANGED chunks
    /\ UNCHANGED << other_components, config, shared, results >>
    /\ UNCHANGED << screenshot, chunks_submitted, futs, idx, encoded_chunks >>

\* Where the submission loop goes after a chunk (and its scan): the next
\* chunk, or past the loop.
AfterChunk(d, submitted) ==
    IF submitted = Len(chunks[d]) THEN "wait_all" ELSE "submit"

\* One iteration of the submission loop.  The admission wait,
\* while (!CanAllocateMemory(...)) sleep_for(10ms), changes no state: while
\* the test fails the request takes no step, and nothing in the loop ends
\* the wait.  Once the test passes the task is pushed, the future kept,
\* chunks_submitted incremented and the progress reported.
SubmitChunk(d) ==
    /\ Alive
    /\ pc[d] = "submit"
    /\ LET chunk == chunks[d][chunks_submitted[d] + 1]
           task == [ req |-> d, task_id |-> TaskId(chunks_submitted[d]), chunk |-> chunk ]
           submitted == chunks_submitted[d] + 1
       IN  /\ CanAllocateMemory(ChunkMemory(chunk))
           /\ task_queue_' = Append(task_queue_, task)
           /\ futs' = [ futs EXCEPT ![d] = Append(@, NewFuture(task.task_id, chunk)) ]
           /\ chunks_submitted' = [ chunks_submitted EXCEPT ![d] = submitted ]
           /\ \E ret \in CallbackReturns :
                Report(d, ChunkProgress(submitted, Len(chunks[d])), ret, TRUE)
           /\ IF submitted >= max_concurrent_chunks
              THEN /\ pc' = [ pc EXCEPT ![d] = "scan" ]
                   /\ idx' = [ idx EXCEPT ![d] = 1 ]
              ELSE /\ pc' = [ pc EXCEPT ![d] = AfterChunk(d, submitted) ]
                   /\ UNCHANGED idx
    /\ UNCHANGED << other_components, config, results, current_memory_usage_, stats_, worker >>
    /\ UNCHANGED << screenshot, chunks, encoded_chunks, result >>

\* What a call on a future whose valid() is false can do (undefined behaviour
\* by the standard): throw std::future_error (libstdc++, MSVC), which the
\* request's catch handler takes, or dereference a null state and crash (libc++).
InvalidFutureOutcomes == {"throw", "crash"}

\* The outcome of such a call, for request d.
OnInvalidFuture(d) ==
    \E outcome \in InvalidFutureOutcomes :
       \/ /\ outcome = "throw"
          /\ Fail(d)
       \/ /\ outcome = "crash"
          /\ pc' = [ pc EXCEPT ![d] = "crashed" ]
          /\ UNCHANGED << result, reports >>

\* "Limit concurrent chunks": one step of the loop over chunk_futures that
\* runs once chunks_submitted >= max_concurrent_chunks.  The future at idx is
\* asked wait_for(0); the first ready one is read with get() and the loop
\* breaks; its value is dropped.
ScanStep(d) ==
    /\ Alive
    /\ pc[d] = "scan"
    /\ LET i == idx[d]
           f == futs[d][i]
           after == IF i = Len(futs[d]) THEN AfterChunk(d, chunks_submitted[d]) ELSE "scan"
       IN  \/ /\ ~ f.valid
              /\ OnInvalidFuture(d)
              /\ UNCHANGED << futs, idx >>
           \/ /\ f.valid
              /\ f.slot = "unset"
              /\ pc' = [ pc EXCEPT ![d] = after ]
              /\ idx' = [ idx EXCEPT ![d] = i + 1 ]
              /\ UNCHANGED << futs, result, reports >>
           \/ /\ f.valid
              /\ f.slot = "value"
              /\ futs' = [ futs EXCEPT ![d][i] = [ @ EXCEPT !.valid = FALSE, !.reads = @ + 1 ] ]
              /\ pc' = [ pc EXCEPT ![d] = AfterChunk(d, chunks_submitted[d]) ]
              /\ UNCHANGED << idx, result, reports >>
           \/ /\ f.valid
              /\ f.slot = "exception"
              /\ futs' = [ futs EXCEPT ![d][i] = [ @ EXCEPT !.valid = FALSE, !.reads = @ + 1 ] ]
              /\ Fail(d)
              /\ UNCHANGED idx
    /\ UNCHANGED << other_components, config, shared, results >>
    /\ UNCHANGED << screenshot, chunks, chunks_submitted, encoded_chunks >>

\* Past the submission loop: callback(80.0, "Waiting for all chunks ...").
WaitForAll(d) ==
    /\ Alive
    /\ pc[d] = "wait_all"
    /\ pc' = [ pc EXCEPT ![d] = "collect" ]
    /\ idx' = [ idx EXCEPT ![d] = 1 ]
    /\ \E ret \in CallbackReturns : Report(d, Pct(80), ret, TRUE)
    /\ UNCHANGED << other_components, config, shared, results >>
    /\ UNCHANGED << screenshot, chunks, chunks_submitted, futs, encoded_chunks, result >>

NextFutureLast(i, n) == n + 1 - i

\* for (auto& future : chunk_futures): the future read at the i-th iteration.
NextFuture(i, n) == i

\* "Collect all encoded chunks": future.get() on the next future, in list
\* order.  get() blocks until the result slot is set, rethrows a stored
\* exception, and otherwise gives the payload, which is appended.
CollectStep(d) ==
    /\ Alive
    /\ pc[d] = "collect"
    /\ LET i == NextFuture(idx[d], Len(futs[d]))
           f == futs[d][i]
           read == [ futs EXCEPT ![d][i] = [ @ EXCEPT !.valid = FALSE, !.reads = @ + 1 ] ]
       IN  \/ /\ ~ f.valid
              /\ futs' = [ futs EXCEPT ![d][i].reads = @ + 1 ]
              /\ OnInvalidFuture(d)
              /\ UNCHANGED << idx, encoded_chunks >>
           \/ /\ f.valid
              /\ f.slot = "value"
              /\ futs' = read
              /\ encoded_chunks' = [ encoded_chunks EXCEPT ![d] = Append(@, f.payload) ]
              /\ pc' = [ pc EXCEPT ![d] = IF idx[d] = Len(futs[d]) THEN "combine" ELSE "collect" ]
              /\ idx' = [ idx EXCEPT ![d] = @ + 1 ]
              /\ UNCHANGED << result, reports >>
           \/ /\ f.valid
              /\ f.slot = "exception"
              /\ futs' = read
              /\ Fail(d)
              /\ UNCHANGED << idx, encoded_chunks >>
    /\ UNCHANGED << other_components, config, shared, results >>
    /\ UNCHANGED << screenshot, chunks, chunks_submitted >>

\* screenshot.data_size of a captured frame (stride * height, 4 bytes a pixel).
data_size(d) == screenshot[d][1] * screenshot[d][2] * BytesPerPixel

\* callback(90.0, ...), CombineEncodedChunks, and the statistics update under
\* stats_mutex_.  compression_ratio is a double in the source; here it is in
\* whole units, rounded down.
Combine(d) ==
    /\ Alive
    /\ pc[d] = "combine"
    /\ LET final_result == CombineEncodedChunks(encoded_chunks[d], UInt32(screenshot[d][1]),
                                                UInt32(screenshot[d][2]))
       IN  /\ result' = [ result EXCEPT ![d] = final_result ]
           /\ stats_' = [ stats_ EXCEPT
                            !.total_pixels_processed = @ + pixel_count(d),
                            !.total_chunks_processed = @ + Len(chunks[d]),
                            !.compression_ratio =
                                IF Len(final_result) > 0
                                THEN (@ + data_size(d) \div Len(final_result)) \div 2
                                ELSE @ ]
    /\ pc' = [ pc EXCEPT ![d] = "finish" ]
    /\ \E ret \in CallbackReturns : Report(d, Pct(90), ret, TRUE)
    /\ UNCHANGED << other_components, config, results, task_queue_, current_memory_usage_, worker >>
    /\ UNCHANGED << screenshot, chunks, chunks_submitted, futs, idx, encoded_chunks >>

\* callback(100.0, ...), return final_result.
Finish(d) ==
    /\ Alive
    /\ pc[d] = "finish"
    /\ pc' = [ pc EXCEPT ![d] = "done" ]
    /\ \E ret \in CallbackReturns : Report(d, Pct(100), ret, TRUE)
    /\ UNCHANGED << other_components, config, shared, results >>
    /\ UNCHANGED << screenshot, chunks, chunks_submitted, futs, idx, encoded_chunks, result >>

\* A request has returned.
Resolved(d) == pc[d] \in {"done", "failed"}

\* StreamCaptureMultipleDisplays, "Collect results": future.get() on the
\* display futures in order.
MultiCollect ==
    /\ Alive
    /\ total > 0
    /\ Len(results) < total
    /\ Resolved(Len(results))
    /\ results' = Append(results, result[Len(results)])
    /\ UNCHANGED << other_components, config, shared, reports, request >>

(* --------------------------- specifications ---------------------------- *)

WorkerStep(w) ==
    \/ WorkerTake(w)
    \/ WorkerBegin(w)
    \/ WorkerEncode(w)
    \/ WorkerFinish(w)

RequestStep(d) ==
    \/ Capture(d)
    \/ SinglePassBegin(d)
    \/ SinglePassEncode(d)
    \/ TilingBegin(d)
    \/ CreateChunksStep(d)
    \/ SubmitChunk(d)
    \/ ScanStep(d)
    \/ WaitForAll(d)
    \/ CollectStep(d)
    \/ Combine(d)
    \/ Finish(d)

Next ==
    \/ \E w \in Workers : WorkerStep(w)
    \/ \E d \in Slots : RequestStep(d)

MultiNext ==
    \/ Next
    \/ MultiCollect

\* One request, any interleaving of its thread and the workers.
Spec == Init /\ [][Next]_vars

\* The same, with every thread scheduled fairly: a thread that can take a
\* step eventually takes one.
FairSpec ==
    /\ Init
    /\ [][Next]_vars
    /\ \A w \in Workers : WF_vars(WorkerStep(w))
    /\ \A d \in Slots : WF_vars(RequestStep(d))

\* One multi-display request.
MultiSpec == MultiInit /\ [][MultiNext]_vars

(* --------------------------- configuration ---------------------------- *)

\* Arguments of SetChunkSize, uint32_t: below, at and above the least tile,
\* and the largest uint32_t.
ChunkDimArgs == { UInt32(0), UInt32(63), UInt32(64), UInt32(65), UInt32(512), UINT32_MAX }

\* Arguments of SetMaxMemoryUsage (MB) and SetCompressionLevel.
MemoryArgs == { 0, 1024, 4096 }
LevelArgs == { -1, 10 }

\* SetChunkSize(width, height)
SetChunkSize(width, height) ==
    /\ chunk_width_' = ClampChunkDim(width)
    /\ chunk_height_' = ClampChunkDim(height)
    /\ UNCHANGED << max_memory_usage_mb_, compression_level_, worker_thread_count_, total >>
    /\ UNCHANGED << other_components, shared, reports, request, results >>

\* SetMaxMemoryUsage(max_memory_mb)
SetMaxMemoryUsage(max_memory_mb) ==
    /\ max_memory_usage_mb_' = ClampMemoryMB(max_memory_mb)
    /\ UNCHANGED << chunk_width_, chunk_height_, compression_level_, worker_thread_count_, total >>
    /\ UNCHANGED << other_components, shared, reports, request, results >>

\* SetCompressionLevel(level)
SetCompressionLevel(level) ==
    /\ compression_level_' = ClampLevel(level)
    /\ UNCHANGED << chunk_width_, chunk_height_, max_memory_usage_mb_, worker_thread_count_, total >>
    /\ UNCHANGED << other_components, shared, reports, request, results >>

\* ConfigureUltraStreaming(chunk_width, chunk_height, max_memory_mb,
\* compression_level) on the pipeline that exists: the three setters.
ConfigureUltraStreaming(chunk_width, chunk_height, max_memory_mb, compression_level) ==
    /\ chunk_width_' = ClampChunkDim(chunk_width)
    /\ chunk_height_' = ClampChunkDim(chunk_height)
    /\ max_memory_usage_mb_' = ClampMemoryMB(max_memory_mb)
    /\ compression_level_' = ClampLevel(compression_level)
    /\ UNCHANGED << worker_thread_count_, total >>
    /\ UNCHANGED << other_components, shared, reports, request, results >>

ConfigInit == PipelineIdle /\ NoZeroCopyBuffer /\ PoolConstructed /\ NoFunctionCall /\ NoThreads

\* Any calls of the setters, on a pipeline with no request running.
ConfigNext ==
    \/ \E width \in ChunkDimArgs, height \in ChunkDimArgs : SetChunkSize(width, height)
    \/ \E max_memory_mb \in MemoryArgs : SetMaxMemoryUsage(max_memory_mb)
    \/ \E level \in LevelArgs : SetCompressionLevel(level)
    \/ \E chunk_width \in ChunkDimArgs, chunk_height \in ChunkDimArgs,
          max_memory_mb \in MemoryArgs, compression_level \in LevelArgs :
          ConfigureUltraStreaming(chunk_width, chunk_height, max_memory_mb, compression_level)

ConfigSpec == ConfigInit /\ [][ConfigNext]_vars

(* ========================= zero-copy buffers ========================== *)
(* src/native/zero_copy_optimizer.cc, class ZeroCopyBuffer.  A buffer is   *)
(* made with std::make_shared, so it has two lifetimes: the shared_ptr     *)
(* handles that own it (use_count), whose last drop runs ~ZeroCopyBuffer,  *)
(* and the intrusive ref_count_ of AddRef and Release, whose Release       *)
(* from 1 runs `delete this`.                                              *)
(* A size_t is kept at its 64 bits, as four 16-bit limbs, most             *)
(* significant first.                                                      *)

(* ------------------------------ bounds --------------------------------- *)

\* CreateView calls made on the parent.
MaxViews == 2

\* shared_ptr handles that own the parent at one time.
MaxHandles == 2

\* Largest ref_count_ the callers drive the parent to.
MaxRefCount == 3

\* Runs of the parent's deleter_ that are followed.
MaxDeleterCalls == 2

(* ------------------------- program constants --------------------------- *)

\* size_t: SizeLimbs limbs, each below LimbBase (4 * 16 = 64 bits)
SizeLimbs == 4

(* ------------------------------ size_t --------------------------------- *)

\* The size_t of a number below LimbBase.
SizeT(n) == << 0, 0, 0, n >>

\* The size_t 2^64 - n, for 0 < n < LimbBase.
SizeTMinus(n) == << LimbBase - 1, LimbBase - 1, LimbBase - 1, LimbBase - n >>

SIZE_MAX == SizeTMinus(1)

\* The carry out of limb i (and of all limbs after it) in a + b.
RECURSIVE Carry(_, _, _)
Carry(a, b, i) ==
    IF i > SizeLimbs THEN 0
    ELSE (a[i] + b[i] + Carry(a, b, i + 1)) \div LimbBase

\* a + b on size_t: the sum modulo 2^64.
SizeAdd(a, b) ==
    [ i \in 1 .. SizeLimbs |-> (a[i] + b[i] + Carry(a, b, i + 1)) % LimbBase ]

\* a > b on size_t.
RECURSIVE SizeGreaterFrom(_, _, _)
SizeGreaterFrom(a, b, i) ==
    IF i > SizeLimbs THEN FALSE
    ELSE IF a[i] # b[i] THEN a[i] > b[i]
    ELSE SizeGreaterFrom(a, b, i + 1)

SizeGreater(a, b) == SizeGreaterFrom(a, b, 1)

(* ------------------------------ inputs --------------------------------- *)

\* Sizes of the mapped parent buffer, in bytes.
ParentSizes == { SizeT(8), SizeT(16) }

\* Arguments of CreateView.
ViewOffsets == { SizeT(0), SizeT(4), SizeTMinus(4) }
ViewSizes == { SizeT(4), SizeT(16), SIZE_MAX }

(* ------------------------------ actions -------------------------------- *)

\* What a use of the buffer after ~ZeroCopyBuffer, or a second destruction
\* of it, can do: end the process, or go on with the bytes still in place.
UseAfterFreeOutcomes == { "crash", "proceed" }

\* The outcomes of a member call on the parent in its present state.
CallOutcomes ==
    IF buffer_state = "destroyed" THEN UseAfterFreeOutcomes ELSE { "proceed" }

\* A caller has a handle to the parent to make calls through.
HasHandle == buffer_state \in { "alive", "destroyed" } /\ use_count > 0

Crash ==
    /\ buffer_state' = "crashed"
    /\ UNCHANGED << size_, ref_count_, use_count, deleter_calls, views >>

\* ~ZeroCopyBuffer of the parent: if (deleter_) deleter_();
DestructorRuns(state) ==
    /\ deleter_calls' = deleter_calls + 1
    /\ buffer_state' = state

\* MapTextureZeroCopy: std::make_shared<ZeroCopyBuffer>(pData, buffer_size,
\* deleter), the constructor setting ref_count_(1).
MapTextureZeroCopy ==
    /\ size_ \in ParentSizes
    /\ ref_count_ = 1
    /\ use_count = 1
    /\ buffer_state = "alive"
    /\ deleter_calls = 0
    /\ views = << >>

\* A holder copies its shared_ptr (result.buffer = zero_copy_buffer).
CopyHandle ==
    /\ UNCHANGED << pipeline, pool, pool_history, function_call, threads >>
    /\ HasHandle
    /\ use_count < MaxHandles
    /\ use_count' = use_count + 1
    /\ UNCHANGED << size_, ref_count_, buffer_state, deleter_calls, views >>

\* A holder drops its shared_ptr; the last drop destroys the buffer,
\* whatever ref_count_ is.  Destroying it a second time is undefined.
DropHandle ==
    /\ UNCHANGED << pipeline, pool, pool_history, function_call, threads >>
    /\ HasHandle
    /\ deleter_calls < MaxDeleterCalls
    /\ use_count' = use_count - 1
    /\ IF use_count > 1
         THEN UNCHANGED << buffer_state, deleter_calls >>
         ELSE \E o \in CallOutcomes :
                IF o = "crash"
                  THEN buffer_state' = "crashed" /\ UNCHANGED deleter_calls
                  ELSE DestructorRuns("destroyed")
    /\ UNCHANGED << size_, ref_count_, views >>

\* AddRef(): ref_count_.fetch_add(1)
AddRef ==
    /\ UNCHANGED << pipeline, pool, pool_history, function_call, threads >>
    /\ HasHandle
    /\ ref_count_ < MaxRefCount
    /\ \E o \in CallOutcomes :
         IF o = "crash" THEN Crash
         ELSE /\ ref_count_' = ref_count_ + 1
              /\ UNCHANGED << size_, use_count, buffer_state, deleter_calls, views >>

\* Release(): if (ref_count_.fetch_sub(1) == 1) delete this;
\* `delete this` on an object that make_shared placed in its control block
\* is undefined: the destructor runs, and the deallocation then either ends
\* the process or leaves the handles pointing at a destroyed buffer.
Release ==
    /\ UNCHANGED << pipeline, pool, pool_history, function_call, threads >>
    /\ HasHandle
    /\ ref_count_ > 0 - MaxRefCount
    /\ deleter_calls < MaxDeleterCalls
    /\ \E o \in CallOutcomes :
         IF o = "crash" THEN Crash
         ELSE /\ ref_count_' = ref_count_ - 1
              /\ IF ref_count_ = 1
                   THEN \E after \in { "crashed", "destroyed" } : DestructorRuns(after)
                   ELSE UNCHANGED << buffer_state, deleter_calls >>
              /\ UNCHANGED << size_, use_count, views >>

\* CreateView(offset, view_size)
CreateView(offset, view_size) ==
    /\ UNCHANGED << pipeline, pool, pool_history, function_call, threads >>
    /\ HasHandle
    /\ Len(views) < MaxViews
    /\ ref_count_ < MaxRefCount
    /\ \E o \in CallOutcomes :
         IF o = "crash" THEN Crash
         ELSE IF SizeGreater(SizeAdd(offset, view_size), size_)
           THEN \* return nullptr
                /\ views' = Append(views, [ offset |-> offset, size |-> view_size,
                                            state |-> "null" ])
                /\ UNCHANGED << size_, ref_count_, use_count, buffer_state, deleter_calls >>
           ELSE \* make_shared<ZeroCopyBuffer>(data_ + offset, view_size, nullptr); AddRef()
                /\ views' = Append(views, [ offset |-> offset, size |-> view_size,
                                            state |-> "alive" ])
                /\ ref_count_' = ref_count_ + 1
                /\ UNCHANGED << size_, use_count, buffer_state, deleter_calls >>

\* The holder of view i drops it: ~ZeroCopyBuffer of the view, whose
\* deleter_ is null.  Nothing of the parent is touched.
DropView(i) ==
    /\ UNCHANGED << pipeline, pool, pool_history, function_call, threads >>
    /\ buffer_state # "crashed"
    /\ i \in DOMAIN views
    /\ views[i].state = "alive"
    /\ views' = [ views EXCEPT ![i].state = "released" ]
    /\ UNCHANGED << size_, ref_count_, use_count, buffer_state, deleter_calls >>

ZeroCopyInit == PipelineIdle /\ MapTextureZeroCopy /\ PoolConstructed /\ NoFunctionCall /\ NoThreads

ZeroCopyNext ==
    \/ CopyHandle
    \/ DropHandle
    \/ AddRef
    \/ Release
    \/ \E offset \in ViewOffsets, view_size \in ViewSizes : CreateView(offset, view_size)
    \/ \E i \in 1 .. MaxViews : DropView(i)

\* One mapped buffer and every sequence of calls its holders can make.
ZeroCopySpec == ZeroCopyInit /\ [][ZeroCopyNext]_vars

(* ============================ memory pool ============================= *)
(* src/native/memory_pool.cc, class ScreenshotMemoryPool: the idle buffers *)
(* (available_buffers_), the statistics and the mutex that guards both,    *)
(* and the threads that call GetBuffer, ReturnBuffer and Clear.            *)
(* A buffer is named by the ordinal of the allocation that made it.        *)
(* Times are steady_clock milliseconds.                                    *)

(* ------------------------------ bounds --------------------------------- *)

\* Allocations that succeed: the next make_unique throws std::bad_alloc.
MaxBuffers == 2

\* Allocations that succeed when the callers fill the pool.
MaxBulkBuffers == 11

\* Buffers taken from the pool: no GetBuffer is called after that many.
MaxReuses == 2

\* The clock advances in steps of TickMs, MaxTicks times at most, and
\* MaxBulkTicks times while the callers fill the pool.
TickMs == 30000
MaxTicks == 3
MaxBulkTicks == 1

(* ------------------------- program constants --------------------------- *)

MAX_POOL_SIZE == 10
BUFFER_TIMEOUT_MS == 60000

\* SIZE_MAX as FindBestFitBuffer uses it for "no size yet": above every size.
NoSize == 2147483647

(* ------------------------------ inputs --------------------------------- *)

\* Sizes the callers ask for and return, in bytes.
Sizes == { 1000, 2000 }

\* The one thread and the one size of callers that fill the pool.
BulkThreads == { 1 }
BulkSizes == { 1000 }

(* --------------------------- pure functions ---------------------------- *)

KeepAt(s, i) == s

\* vector::erase(begin() + i)
EraseAt(s, i) == SubSeq(s, 1, i - 1) \o SubSeq(s, i + 1, Len(s))

KeepExpired(buffers, current_time) == buffers

\* CleanupExpiredBuffers: remove_if (current_time - last_used_time) >
\* BUFFER_TIMEOUT_MS, then erase.
CleanupExpiredBuffers(buffers, current_time) ==
    LET Kept(buf_info) == ~((current_time - buf_info.last_used_time) > BUFFER_TIMEOUT_MS)
    IN  SelectSeq(buffers, Kept)

\* The loop of FindBestFitBuffer from index i on.
RECURSIVE BestFitFrom(_, _, _, _, _)
BestFitFrom(buffers, required_size, i, best_fit_index, best_fit_size) ==
    IF i > Len(buffers) THEN best_fit_index
    ELSE IF buffers[i].size >= required_size /\ buffers[i].size < best_fit_size
      THEN IF buffers[i].size = required_size
             THEN i
             ELSE BestFitFrom(buffers, required_size, i + 1, i, buffers[i].size)
      ELSE BestFitFrom(buffers, required_size, i + 1, best_fit_index, best_fit_size)

FindFirstFit(buffers, required_size) ==
    IF \E i \in 1 .. Len(buffers) : buffers[i].size >= required_size
      THEN CHOOSE i \in 1 .. Len(buffers) :
             /\ buffers[i].size >= required_size
             /\ \A j \in 1 .. (i - 1) : buffers[j].size < required_size
      ELSE NoIndex

FindBestFitBuffer(buffers, required_size) ==
    BestFitFrom(buffers, required_size, 1, NoIndex, NoSize)

NewestIndex(buffers) == Len(buffers)

\* std::min_element by last_used_time: the first of the smallest.
OldestIndex(buffers) ==
    CHOOSE i \in 1 .. Len(buffers) :
        /\ \A j \in 1 .. Len(buffers) : buffers[i].last_used_time <= buffers[j].last_used_time
        /\ \A j \in 1 .. (i - 1) : buffers[j].last_used_time > buffers[i].last_used_time

EvictNever(buffers) == buffers

\* ReturnBuffer, "If pool is full, remove oldest buffer".
EvictIfFull(buffers) ==
    IF Len(buffers) >= MAX_POOL_SIZE
      THEN EraseAt(buffers, OldestIndex(buffers))
      ELSE buffers

RECURSIVE SumSizes(_, _)
SumSizes(buffers, i) ==
    IF i > Len(buffers) THEN 0 ELSE buffers[i].size + SumSizes(buffers, i + 1)

CountReuseAsCreated(stats, buffers) ==
    [ stats EXCEPT !.available_buffers = Len(buffers),
                   !.total_buffers_created = @ + 1 ]

\* GetBuffer, the statistics of a buffer taken from the pool.
CountReuse(stats, buffers) ==
    [ stats EXCEPT !.available_buffers = Len(buffers),
                   !.memory_reuse_count = @ + 1 ]

\* GetBuffer, the statistics of a new buffer of `size` bytes.
CountAllocation(stats, buffers, size) ==
    LET current_memory == stats.total_memory_allocated + size + SumSizes(buffers, 1)
    IN  [ stats EXCEPT !.total_buffers_created = @ + 1,
                       !.total_memory_allocated = @ + size,
                       !.peak_memory_usage = Max(@, current_memory) ]

(* ------------------------------ actions -------------------------------- *)

\* std::lock_guard<std::mutex> lock(mutex_) can be taken.
MutexFree == mutex_ = NoThread

\* The outcomes of std::make_unique<uint8_t[]>(size) with `limit` buffers
\* of memory to give.
AllocOutcomes(limit) ==
    IF pool_stats_.total_buffers_created < limit THEN { "ok", "bad_alloc" }
    ELSE { "bad_alloc" }

\* GetBuffer(size), first half: take the lock, CleanupExpiredBuffers(),
\* FindBestFitBuffer(size).
GetBufferEnter(t, size) ==
    /\ UNCHANGED << pipeline, zero_copy, function_call, threads >>
    /\ caller[t].pc = "idle"
    /\ pool_stats_.memory_reuse_count < MaxReuses
    /\ MutexFree
    /\ mutex_' = t
    /\ available_buffers_' = CleanupExpiredBuffers(available_buffers_, steady_clock)
    /\ pool_stats_' = [ pool_stats_ EXCEPT !.available_buffers = Len(available_buffers_') ]
    /\ caller' = [ caller EXCEPT ![t] =
                     [ pc |-> "get", size |-> size, current_time |-> steady_clock,
                       best_fit_index |-> FindBestFitBuffer(available_buffers_', size) ] ]
    /\ UNCHANGED << steady_clock, held >>

\* GetBuffer(size), second half: hand out the best fit and erase it from
\* the pool, or allocate; the lock is released on return (and when
\* make_unique throws).
GetBufferReturn(t, alloc) ==
    /\ UNCHANGED << pipeline, zero_copy, function_call, threads >>
    /\ caller[t].pc = "get"
    /\ mutex_ = t
    /\ mutex_' = NoThread
    /\ caller' = [ caller EXCEPT ![t] = Idle ]
    /\ LET best_fit_index == caller[t].best_fit_index
       IN  IF best_fit_index # NoIndex
             THEN /\ held' = [ held EXCEPT ![t] = @ \cup { available_buffers_[best_fit_index].buffer } ]
                  /\ available_buffers_' = EraseAt(available_buffers_, best_fit_index)
                  /\ pool_stats_' = CountReuse(pool_stats_, available_buffers_')
             ELSE IF alloc = "ok"
               THEN /\ held' = [ held EXCEPT ![t] = @ \cup { pool_stats_.total_buffers_created + 1 } ]
                    /\ pool_stats_' = CountAllocation(pool_stats_, available_buffers_, caller[t].size)
                    /\ UNCHANGED available_buffers_
               ELSE UNCHANGED << held, available_buffers_, pool_stats_ >>
    /\ UNCHANGED steady_clock

IsNullNever(buffer) == FALSE

\* if (!buffer)
IsNull(buffer) == buffer = NullBuffer

\* ReturnBuffer(buffer, size) with a buffer the thread holds or with a null
\* buffer: a null buffer returns before the lock is taken.
ReturnBuffer(t, buffer, size) ==
    /\ UNCHANGED << pipeline, zero_copy, function_call, threads >>
    /\ caller[t].pc = "idle"
    /\ buffer = NullBuffer \/ buffer \in held[t]
    /\ IF IsNull(buffer)
         THEN UNCHANGED << available_buffers_, pool_stats_, held >>
         ELSE /\ MutexFree
              /\ held' = [ held EXCEPT ![t] = @ \ { buffer } ]
              /\ available_buffers_' =
                   Append(EvictIfFull(available_buffers_),
                          [ buffer |-> buffer, size |-> size, last_used_time |-> steady_clock ])
              /\ pool_stats_' = [ pool_stats_ EXCEPT !.available_buffers = Len(available_buffers_') ]
    /\ UNCHANGED << mutex_, steady_clock, caller >>

\* The holder of a buffer keeps it for good or frees it (a capture result's
\* data is never returned to the pool).
FreeBuffer(t, buffer) ==
    /\ UNCHANGED << pipeline, zero_copy, function_call, threads >>
    /\ caller[t].pc = "idle"
    /\ buffer \in held[t]
    /\ held' = [ held EXCEPT ![t] = @ \ { buffer } ]
    /\ UNCHANGED << available_buffers_, pool_stats_, mutex_, steady_clock, caller >>

\* Clear()
Clear(t) ==
    /\ UNCHANGED << pipeline, zero_copy, function_call, threads >>
    /\ caller[t].pc = "idle"
    /\ MutexFree
    /\ available_buffers_ # << >>
    /\ available_buffers_' = << >>
    /\ pool_stats_' = [ pool_stats_ EXCEPT !.available_buffers = 0 ]
    /\ UNCHANGED << mutex_, steady_clock, caller, held >>

\* steady_clock moves on.
Tick(max_ticks) ==
    /\ UNCHANGED << pipeline, zero_copy, function_call, threads >>
    /\ steady_clock < max_ticks * TickMs
    /\ steady_clock' = steady_clock + TickMs
    /\ UNCHANGED << available_buffers_, pool_stats_, mutex_, caller, held >>

PoolInit == PipelineIdle /\ NoZeroCopyBuffer /\ PoolConstructed /\ NoFunctionCall /\ NoThreads

\* Any callers: each thread asks for any size, and returns or frees any
\* buffer it holds, under any size.
PoolNext ==
    \/ /\ \E t \in Threads, size \in Sizes : GetBufferEnter(t, size)
       /\ UNCHANGED pool_history
    \/ /\ \E t \in Threads, alloc \in AllocOutcomes(MaxBuffers) : GetBufferReturn(t, alloc)
       /\ UNCHANGED pool_history
    \/ /\ \E t \in Threads, size \in Sizes : \E buffer \in held[t] : ReturnBuffer(t, buffer, size)
       /\ UNCHANGED pool_history
    \/ /\ \E t \in Threads : \E buffer \in held[t] : FreeBuffer(t, buffer)
       /\ UNCHANGED pool_history
    \/ /\ \E t \in Threads : Clear(t)
       /\ UNCHANGED pool_history
    \/ /\ Tick(MaxTicks)
       /\ UNCHANGED pool_history

PoolSpec == PoolInit /\ [][PoolNext]_vars

\* The buffer a thread that fills the pool gives up next: the one it has
\* held longest.
FirstHeld(t) == CHOOSE buffer \in held[t] : \A other \in held[t] : buffer <= other

\* Callers that fill the pool: one thread takes buffers of one size, up to
\* MaxBulkBuffers at a time, and returns them in the order it took them.
PoolFullNext ==
    \/ /\ \E t \in BulkThreads, size \in BulkSizes : GetBufferEnter(t, size)
       /\ UNCHANGED pool_history
    \/ /\ \E t \in BulkThreads, alloc \in AllocOutcomes(MaxBulkBuffers) : GetBufferReturn(t, alloc)
       /\ UNCHANGED pool_history
    \/ /\ \E t \in BulkThreads, size \in BulkSizes :
            held[t] # { } /\ ReturnBuffer(t, FirstHeld(t), size)
       /\ UNCHANGED pool_history
    \/ /\ \E t \in BulkThreads : Clear(t)
       /\ UNCHANGED pool_history
    \/ /\ Tick(MaxBulkTicks)
       /\ UNCHANGED pool_history

PoolFullSpec == PoolInit /\ [][PoolFullNext]_vars

(* ----------------------- the pool and its history ---------------------- *)

\* The buffers that are allocated and not freed: held by a thread or idle
\* in the pool.
LiveBuffers ==
    UNION { held[t] : t \in Threads }
      \cup { available_buffers_[i].buffer : i \in 1 .. Len(available_buffers_) }

RECURSIVE SumCapacity(_)
SumCapacity(buffers) ==
    IF buffers = { } THEN 0
    ELSE LET buffer == CHOOSE b \in buffers : TRUE
         IN  capacity[buffer] + SumCapacity(buffers \ { buffer })

\* The bytes of the live buffers.
LiveBytes == SumCapacity(LiveBuffers)

\* A step of the pool written into its history: a new buffer's bytes, and
\* the most live bytes so far.
RecordStep(size) ==
    /\ capacity' = IF pool_stats_'.total_buffers_created > pool_stats_.total_buffers_created
                     THEN Append(capacity, size)
                     ELSE capacity
    /\ live_peak' = Max(live_peak, LiveBytes')
    /\ UNCHANGED null_return

\* The callers of PoolNext, with the history kept.
PoolHistoryNext ==
    \/ /\ \E t \in Threads, size \in Sizes : GetBufferEnter(t, size)
       /\ RecordStep(0)
    \/ \E t \in Threads, alloc \in AllocOutcomes(MaxBuffers) :
          GetBufferReturn(t, alloc) /\ RecordStep(caller[t].size)
    \/ /\ \E t \in Threads, size \in Sizes : \E buffer \in held[t] : ReturnBuffer(t, buffer, size)
       /\ RecordStep(0)
    \/ /\ \E t \in Threads : \E buffer \in held[t] : FreeBuffer(t, buffer)
       /\ RecordStep(0)
    \/ /\ \E t \in Threads : Clear(t)
       /\ RecordStep(0)
    \/ /\ Tick(MaxTicks)
       /\ RecordStep(0)

PoolHistorySpec == PoolInit /\ [][PoolHistoryNext]_vars

\* Sizes passed with a null buffer: none, and one no idle buffer has.
NullSizes == { 0, 2000 }

\* Callers that fill the pool as those of PoolFullNext do (and never call
\* Clear), and call ReturnBuffer with a null buffer under any size, at any
\* time.
NullReturnNext ==
    \/ /\ \E t \in BulkThreads, size \in BulkSizes : GetBufferEnter(t, size)
       /\ UNCHANGED pool_history
    \/ /\ \E t \in BulkThreads, alloc \in AllocOutcomes(MaxBulkBuffers) : GetBufferReturn(t, alloc)
       /\ UNCHANGED pool_history
    \/ /\ \E t \in BulkThreads, size \in BulkSizes :
            held[t] # { } /\ ReturnBuffer(t, FirstHeld(t), size)
       /\ UNCHANGED pool_history
    \/ /\ Tick(MaxBulkTicks)
       /\ UNCHANGED pool_history
    \/ \E t \in BulkThreads, size \in NullSizes :
          /\ ReturnBuffer(t, NullBuffer, size)
          /\ null_return' = [ size |-> size, full |-> Len(available_buffers_) >= MAX_POOL_SIZE ]
          /\ UNCHANGED << capacity, live_peak >>

NullReturnSpec == PoolInit /\ [][NullReturnNext]_vars

(* ===================== functions on their own ========================= *)
(* CreateChunks and the two functions that combine encoded payloads,      *)
(* each called once on arguments of its own.                              *)

\* Sides of a frame, and of a tile as SetChunkSize may leave it (64 or more).
FrameDims == { UInt32(1), UInt32(64), UInt32(100), UInt32(129) }
TileDims == { UInt32(64), UInt32(65), UINT32_MAX }

\* Lists of encoded payloads: none, one, two, and one with an empty payload.
PayloadLists == { << >>, << << 1 >> >>, << << 1, 2 >>, << 3 >> >>, << << >>, << 7 >> >> }

\* Sides of a canvas.
CanvasDims == { UInt32(100), UInt32(8192) }

\* has_alpha is whether the frame has alpha; CombineEncodedChunks is not
\* given it.
Arguments ==
    [ function : { "CreateChunks" }, width : FrameDims, height : FrameDims,
      chunk_width : TileDims, chunk_height : TileDims ]
    \cup [ function : { "CombineEncodedChunks", "CombineEncodedTiles" },
           payloads : PayloadLists, total_width : CanvasDims, total_height : CanvasDims,
           has_alpha : BOOLEAN ]

CallCreateChunks ==
    /\ arguments.function = "CreateChunks"
    /\ returned = NotReturned
    /\ returned' = [ function |-> "CreateChunks",
                     value |-> CreateChunks(arguments.width, arguments.height,
                                            arguments.chunk_width, arguments.chunk_height) ]
    /\ UNCHANGED << pipeline, zero_copy, pool, pool_history, arguments, converter, threads >>

CallCombineEncodedChunks ==
    /\ arguments.function = "CombineEncodedChunks"
    /\ returned = NotReturned
    /\ returned' = [ function |-> "CombineEncodedChunks",
                     value |-> CombineEncodedChunks(arguments.payloads, arguments.total_width,
                                                    arguments.total_height) ]
    /\ UNCHANGED << pipeline, zero_copy, pool, pool_history, arguments, converter, threads >>

CallCombineEncodedTiles ==
    /\ arguments.function = "CombineEncodedTiles"
    /\ returned = NotReturned
    /\ returned' = [ function |-> "CombineEncodedTiles",
                     value |-> CombineEncodedTiles(arguments.payloads, arguments.total_width,
                                                   arguments.total_height, arguments.has_alpha) ]
    /\ UNCHANGED << pipeline, zero_copy, pool, pool_history, arguments, converter, threads >>

FunctionInit ==
    /\ PipelineIdle /\ NoZeroCopyBuffer /\ PoolConstructed /\ NoThreads
    /\ arguments \in Arguments
    /\ returned = NotReturned
    /\ memory = [ name \in BufferNames |-> << >> ]
    /\ g_cpu_info = [ has_sse2 |-> FALSE, has_avx2 |-> FALSE, has_neon |-> FALSE ]
    /\ calls = << >>

FunctionNext ==
    \/ CallCreateChunks
    \/ CallCombineEncodedChunks
    \/ CallCombineEncodedTiles

FunctionSpec == FunctionInit /\ [][FunctionNext]_vars

(* ====================== pixel format conversion ======================= *)
(* The converters of src/native/simd_converter.cc, called on buffers of    *)
(* the caller: each implementation as its loops compute it, and the public *)
(* functions that pick one from g_cpu_info.                                *)

(* ------------------------------ bounds --------------------------------- *)

\* Most pixels a call is asked to convert.
MaxPixels == 17

(* ------------------------- program constants --------------------------- *)

\* Pixels a 128-bit load holds (pixel_count & ~3), and a 256-bit load
\* (pixel_count & ~7).
SSE2_PIXELS == 4
AVX2_PIXELS == 8
NEON_PIXELS == 4

\* Bytes of an RGB pixel.
RGB_BYTES == 3

\* Lanes of a 128-bit register.
LANES == 16

(* --------------------------- pure functions ---------------------------- *)

\* Bitwise or of two bytes.
RECURSIVE BitOr(_, _)
BitOr(a, b) ==
    IF a = 0 THEN b
    ELSE IF b = 0 THEN a
    ELSE (IF a % 2 = 1 \/ b % 2 = 1 THEN 1 ELSE 0) + 2 * BitOr(a \div 2, b \div 2)

\* i * scale + c as the loops compute it, in uint32_t.
Offset(i, scale, c) == Value(U32Add(U32Mul(UInt32(i), UInt32(scale)), UInt32(c)))

SimdPixelsUp(count, group) == ((count + group - 1) \div group) * group

\* pixel_count & ~(group - 1), group a power of two.
SimdPixels(count, group) == count - (count % group)

\* A conversion under way: the destination's bytes, and the offsets of the
\* source read and of the destination written so far.  Buffers are
\* sequences: the byte at offset k is element k + 1.
Run(dst) == [ dst |-> dst, loads |-> { }, stores |-> { } ]

\* `count` bytes of buf from `offset` on (_mm_loadu_si128, _mm256_loadu_si256,
\* vld1q_u8, or single bytes).
Load(buf, offset, count) == [ k \in 1 .. count |-> buf[offset + k] ]

\* The run after `count` bytes were read from the source at `offset`.
Loaded(run, offset, count) ==
    [ run EXCEPT !.loads = @ \cup (offset .. (offset + count - 1)) ]

\* The run after the first `count` bytes of reg were written to the
\* destination at `offset` (_mm_storeu_si128, _mm_storel_epi64, vst1q_u8, or
\* single bytes).
Store(run, offset, reg, count) ==
    [ run EXCEPT !.dst = [ j \in DOMAIN @ |->
                             IF (j - 1) \in offset .. (offset + count - 1)
                             THEN reg[j - offset] ELSE @[j] ],
                 !.stores = @ \cup (offset .. (offset + count - 1)) ]

\* _mm_shuffle_epi8 and, lane by lane of 16 bytes, _mm256_shuffle_epi8: a
\* mask byte with its top bit set gives 0, any other selects by its low four
\* bits within the lane.
mm_shuffle_epi8(a, mask) ==
    [ k \in DOMAIN a |->
        IF mask[k] < 0 THEN 0
        ELSE a[((k - 1) \div LANES) * LANES + (mask[k] % LANES) + 1] ]

\* vqtbl1q_u8: an index of 16 or more gives 0.
vqtbl1q_u8(t, index) ==
    [ k \in DOMAIN index |-> IF index[k] < LANES THEN t[index[k] + 1] ELSE 0 ]

\* a | b on registers.
vorrq_u8(a, b) == [ k \in DOMAIN a |-> BitOr(a[k], b[k]) ]

\* shuffle_mask of ConvertBGRAToRGBA_SSE2, and of _AVX2 (the same twice).
shuffle_mask == << 2, 1, 0, 3, 6, 5, 4, 7, 10, 9, 8, 11, 14, 13, 12, 15 >>

\* shuffle_mask1 of ConvertRGBAToRGB_SSE2.
shuffle_mask1 == << 0, 1, 2, 4, 5, 6, 8, 9, 10, 12, 13, 14, -1, -1, -1, -1 >>

\* The scalar loop of the BGRA to RGBA converters, from pixel i on.
RECURSIVE ScalarBGRAToRGBA(_, _, _, _)
ScalarBGRAToRGBA(bgra, run, i, count) ==
    IF ~ (i < count) THEN run
    ELSE LET at == Offset(i, 4, 0)
             pixel == Load(bgra, at, 4)
         IN  ScalarBGRAToRGBA(bgra,
                 Store(Loaded(run, at, 4), at,
                       << pixel[3], pixel[2], pixel[1], pixel[4] >>, 4),
                 i + 1, count)

ConvertBGRAToRGBA_C(bgra, run, count) ==
    ScalarBGRAToRGBA(bgra, run, 0, count)

\* The vector loop of ConvertBGRAToRGBA_SSE2.
RECURSIVE VectorBGRAToRGBA_SSE2(_, _, _, _)
VectorBGRAToRGBA_SSE2(bgra, run, i, simd_pixels) ==
    IF ~ (i < simd_pixels) THEN run
    ELSE LET at == Offset(i, 4, 0)
             pixels == Load(bgra, at, LANES)
             converted == mm_shuffle_epi8(pixels, shuffle_mask)
         IN  VectorBGRAToRGBA_SSE2(bgra,
                 Store(Loaded(run, at, LANES), at, converted, LANES),
                 i + SSE2_PIXELS, simd_pixels)

ConvertBGRAToRGBA_SSE2(bgra, run, count) ==
    LET simd_pixels == SimdPixels(count, SSE2_PIXELS)
    IN  ScalarBGRAToRGBA(bgra, VectorBGRAToRGBA_SSE2(bgra, run, 0, simd_pixels),
                         simd_pixels, count)

\* The vector loop of ConvertBGRAToRGBA_AVX2.
RECURSIVE VectorBGRAToRGBA_AVX2(_, _, _, _)
VectorBGRAToRGBA_AVX2(bgra, run, i, simd_pixels) ==
    IF ~ (i < simd_pixels) THEN run
    ELSE LET at == Offset(i, 4, 0)
             pixels == Load(bgra, at, 2 * LANES)
             converted == mm_shuffle_epi8(pixels, shuffle_mask \o shuffle_mask)
         IN  VectorBGRAToRGBA_AVX2(bgra,
                 Store(Loaded(run, at, 2 * LANES), at, converted, 2 * LANES),
                 i + AVX2_PIXELS, simd_pixels)

ConvertBGRAToRGBA_AVX2(bgra, run, count) ==
    LET simd_pixels == SimdPixels(count, AVX2_PIXELS)
    IN  ScalarBGRAToRGBA(bgra, VectorBGRAToRGBA_AVX2(bgra, run, 0, simd_pixels),
                         simd_pixels, count)

\* The vector loop of ConvertBGRAToRGBA_NEON: the channels are pulled out
\* of the four pixels, and the result is the or of four table look-ups.
RECURSIVE VectorBGRAToRGBA_NEON(_, _, _, _)
VectorBGRAToRGBA_NEON(bgra, run, i, simd_pixels) ==
    IF ~ (i < simd_pixels) THEN run
    ELSE LET at == Offset(i, 4, 0)
             pixels == Load(bgra, at, LANES)
             b == vqtbl1q_u8(pixels, << 0, 4, 8, 12, 0, 0, 0, 0, 0, 0, 0, 0, 0, 0, 0, 0 >>)
             g == vqtbl1q_u8(pixels, << 1, 5, 9, 13, 0, 0, 0, 0, 0, 0, 0, 0, 0, 0, 0, 0 >>)
             r == vqtbl1q_u8(pixels, << 2, 6, 10, 14, 0, 0, 0, 0, 0, 0, 0, 0, 0, 0, 0, 0 >>)
             a == vqtbl1q_u8(pixels, << 3, 7, 11, 15, 0, 0, 0, 0, 0, 0, 0, 0, 0, 0, 0, 0 >>)
             result1 == vqtbl1q_u8(r, << 0, 0, 0, 0, 1, 1, 1, 1, 2, 2, 2, 2, 3, 3, 3, 3 >>)
             result2 == vorrq_u8(vqtbl1q_u8(g, << 0, 1, 0, 0, 1, 1, 1, 1, 2, 2, 2, 2, 3, 3, 3, 3 >>),
                                 result1)
             result3 == vorrq_u8(vqtbl1q_u8(b, << 0, 0, 2, 0, 1, 1, 1, 1, 2, 2, 2, 2, 3, 3, 3, 3 >>),
                                 result2)
             result4 == vorrq_u8(vqtbl1q_u8(a, << 0, 0, 0, 3, 1, 1, 1, 1, 2, 2, 2, 2, 3, 3, 3, 3 >>),
                                 result3)
         IN  VectorBGRAToRGBA_NEON(bgra,
                 Store(Loaded(run, at, LANES), at, result4, LANES),
                 i + NEON_PIXELS, simd_pixels)

ConvertBGRAToRGBA_NEON(bgra, run, count) ==
    LET simd_pixels == SimdPixels(count, NEON_PIXELS)
    IN  ScalarBGRAToRGBA(bgra, VectorBGRAToRGBA_NEON(bgra, run, 0, simd_pixels),
                         simd_pixels, count)

\* The scalar loop of the RGBA to RGB converters, from pixel i on: three
\* bytes are read of each pixel and three written.
RECURSIVE ScalarRGBAToRGB(_, _, _, _)
ScalarRGBAToRGB(rgba, run, i, count) ==
    IF ~ (i < count) THEN run
    ELSE LET from == Offset(i, 4, 0)
             to == Offset(i, RGB_BYTES, 0)
         IN  ScalarRGBAToRGB(rgba,
                 Store(Loaded(run, from, RGB_BYTES), to, Load(rgba, from, RGB_BYTES), RGB_BYTES),
                 i + 1, count)

ConvertRGBAToRGB_C(rgba, run, count) ==
    ScalarRGBAToRGB(rgba, run, 0, count)

\* The vector loop of ConvertRGBAToRGB_SSE2: the low eight bytes of the
\* packed register are stored, then its third 32-bit element after them.
RECURSIVE VectorRGBAToRGB_SSE2(_, _, _, _)
VectorRGBAToRGB_SSE2(rgba, run, i, simd_pixels) ==
    IF ~ (i < simd_pixels) THEN run
    ELSE LET from == Offset(i, 4, 0)
             pixels == Load(rgba, from, LANES)
             packed == mm_shuffle_epi8(pixels, shuffle_mask1)
             last4 == << packed[9], packed[10], packed[11], packed[12] >>
             low == Store(Loaded(run, from, LANES), Offset(i, RGB_BYTES, 0), packed, 8)
         IN  VectorRGBAToRGB_SSE2(rgba,
                 Store(low, Offset(i, RGB_BYTES, 8), last4, 4),
                 i + SSE2_PIXELS, simd_pixels)

ConvertRGBAToRGB_SSE2(rgba, run, count) ==
    LET simd_pixels == SimdPixels(count, SSE2_PIXELS)
    IN  ScalarRGBAToRGB(rgba, VectorRGBAToRGB_SSE2(rgba, run, 0, simd_pixels),
                        simd_pixels, count)

\* The inner loop of ConvertRGBAToRGB_AVX2 over the eight pixels in temp.
RECURSIVE TempToRGB(_, _, _, _)
TempToRGB(temp, run, i, j) ==
    IF ~ (j < AVX2_PIXELS) THEN run
    ELSE TempToRGB(temp,
             Store(run, Offset(i + j, RGB_BYTES, 0), Load(temp, j * 4, RGB_BYTES), RGB_BYTES),
             i, j + 1)

\* The vector loop of ConvertRGBAToRGB_AVX2.
RECURSIVE VectorRGBAToRGB_AVX2(_, _, _, _)
VectorRGBAToRGB_AVX2(rgba, run, i, simd_pixels) ==
    IF ~ (i < simd_pixels) THEN run
    ELSE LET from == Offset(i, 4, 0)
             temp == Load(rgba, from, 2 * LANES)
         IN  VectorRGBAToRGB_AVX2(rgba,
                 TempToRGB(temp, Loaded(run, from, 2 * LANES), i, 0),
                 i + AVX2_PIXELS, simd_pixels)

ConvertRGBAToRGB_AVX2(rgba, run, count) ==
    LET simd_pixels == SimdPixels(count, AVX2_PIXELS)
    IN  ScalarRGBAToRGB(rgba, VectorRGBAToRGB_AVX2(rgba, run, 0, simd_pixels),
                        simd_pixels, count)

\* The loop of ConvertBGRAToRGBAInPlace from pixel i on:
\* std::swap(data[i * 4 + 0], data[i * 4 + 2]).
RECURSIVE SwapInPlace(_, _, _)
SwapInPlace(run, i, count) ==
    IF ~ (i < count) THEN run
    ELSE LET first == Offset(i, 4, 0)
             third == Offset(i, 4, 2)
             one == Load(run.dst, first, 1)
             other == Load(run.dst, third, 1)
             read == Loaded(Loaded(run, first, 1), third, 1)
         IN  SwapInPlace(Store(Store(read, first, other, 1), third, one, 1),
                         i + 1, count)

(* ------------------------------ inputs --------------------------------- *)

\* Pixels each buffer of the caller has room for: a whole 256-bit group
\* more than any call is asked to convert.
BufferPixels == MaxPixels + AVX2_PIXELS - 1
BufferBytes == BufferPixels * BytesPerPixel

\* The byte at offset k of a buffer the caller filled: bytes that differ
\* from their neighbours, one bit a channel, or every bit set.
PatternByte(pattern, k) ==
    CASE pattern = "mixed" -> (k * 37 + 11) % 256
      [] pattern = "bits" -> << 1, 2, 4, 8 >>[(k % 4) + 1]
      [] pattern = "ones" -> 255

Patterns == { "mixed", "bits", "ones" }

\* Buffer A holds the caller's pixels; B and C hold what was there before.
FilledMemory(pattern) ==
    [ name \in BufferNames |->
        [ j \in 1 .. BufferBytes |->
            IF name = "A" THEN PatternByte(pattern, j - 1) ELSE 170 ] ]

PixelCounts == 0 .. MaxPixels

\* What the build and the processor leave in g_cpu_info: no vector unit,
\* SSE2, SSE2 and AVX2, or NEON.
CPUInfo ==
    { [ has_sse2 |-> FALSE, has_avx2 |-> FALSE, has_neon |-> FALSE ],
      [ has_sse2 |-> TRUE, has_avx2 |-> FALSE, has_neon |-> FALSE ],
      [ has_sse2 |-> TRUE, has_avx2 |-> TRUE, has_neon |-> FALSE ],
      [ has_sse2 |-> FALSE, has_avx2 |-> FALSE, has_neon |-> TRUE ] }

(* ------------------------------ actions -------------------------------- *)

DegenerateCountOnly(src, dst, count) == count = 0

\* if (!src || !dst || pixel_count == 0) return;
Degenerate(src, dst, count) ==
    src = NullPointer \/ dst = NullPointer \/ count = 0

\* What a call has done: the caller's buffers after it, the offsets it read
\* and wrote, and whether it ended the process.
Returned(mem, run) ==
    [ memory |-> mem, loads |-> run.loads, stores |-> run.stores, crashed |-> FALSE ]

\* A load or a store through a null pointer ends the process.
Crashed(mem) ==
    [ memory |-> mem, loads |-> { }, stores |-> { }, crashed |-> TRUE ]

ConvertBGRAToRGBA(mem, info, bgra_data, rgba_data, count) ==
    IF Degenerate(bgra_data, rgba_data, count) THEN Returned(mem, Run(<< >>))
    ELSE IF NullPointer \in { bgra_data, rgba_data } THEN Crashed(mem)
    ELSE LET bgra == mem[bgra_data]
             run == Run(mem[rgba_data])
             done == IF info.has_avx2 THEN ConvertBGRAToRGBA_AVX2(bgra, run, count)
                     ELSE IF info.has_sse2 THEN ConvertBGRAToRGBA_SSE2(bgra, run, count)
                     ELSE IF info.has_neon THEN ConvertBGRAToRGBA_NEON(bgra, run, count)
                     ELSE ConvertBGRAToRGBA_C(bgra, run, count)
         IN  Returned([ mem EXCEPT ![rgba_data] = done.dst ], done)

ConvertRGBAToRGB(mem, info, rgba_data, rgb_data, count) ==
    IF Degenerate(rgba_data, rgb_data, count) THEN Returned(mem, Run(<< >>))
    ELSE IF NullPointer \in { rgba_data, rgb_data } THEN Crashed(mem)
    ELSE LET rgba == mem[rgba_data]
             run == Run(mem[rgb_data])
             done == IF info.has_avx2 THEN ConvertRGBAToRGB_AVX2(rgba, run, count)
                     ELSE IF info.has_sse2 THEN ConvertRGBAToRGB_SSE2(rgba, run, count)
                     ELSE ConvertRGBAToRGB_C(rgba, run, count)
         IN  Returned([ mem EXCEPT ![rgb_data] = done.dst ], done)

ConvertBGRAToRGBAInPlace(mem, data, count) ==
    IF Degenerate(data, data, count) THEN Returned(mem, Run(<< >>))
    ELSE IF data = NullPointer THEN Crashed(mem)
    ELSE LET done == SwapInPlace(Run(mem[data]), 0, count)
         IN  Returned([ mem EXCEPT ![data] = done.dst ], done)

\* The caller's record of a call and of what it did.
Called(function, src, dst, count, did) ==
    /\ memory' = did.memory
    /\ calls' = Append(calls, [ function |-> function, src |-> src, dst |-> dst,
                                pixel_count |-> count, before |-> memory,
                                after |-> did.memory, loads |-> did.loads,
                                stores |-> did.stores, crashed |-> did.crashed ])
    /\ UNCHANGED << pipeline, zero_copy, pool, pool_history, arguments, returned, g_cpu_info, threads >>

CallConvertBGRAToRGBA(bgra_data, rgba_data, count) ==
    Called("ConvertBGRAToRGBA", bgra_data, rgba_data, count,
           ConvertBGRAToRGBA(memory, g_cpu_info, bgra_data, rgba_data, count))

CallConvertRGBAToRGB(rgba_data, rgb_data, count) ==
    Called("ConvertRGBAToRGB", rgba_data, rgb_data, count,
           ConvertRGBAToRGB(memory, g_cpu_info, rgba_data, rgb_data, count))

CallConvertBGRAToRGBAInPlace(data, count) ==
    Called("ConvertBGRAToRGBAInPlace", data, data, count,
           ConvertBGRAToRGBAInPlace(memory, data, count))

\* The caller's buffers are filled and no converter has been called.
ConverterInit ==
    /\ PipelineIdle /\ NoZeroCopyBuffer /\ PoolConstructed /\ NoThreads
    /\ arguments = NoArguments
    /\ returned = NotReturned
    /\ \E pattern \in Patterns : memory = FilledMemory(pattern)
    /\ g_cpu_info \in CPUInfo
    /\ calls = << >>

\* The call before this one converted pixels with `function`.
After(function) ==
    /\ Len(calls) = 1
    /\ calls[1].function = function
    /\ ~ calls[1].crashed
    /\ calls[1].pixel_count > 0
    /\ NullPointer \notin { calls[1].src, calls[1].dst }

\* A caller converts A into B, possibly with a null pointer, and may convert
\* B back into C; or converts A in place, and may do so again.
ConverterNext ==
    \/ /\ calls = << >>
       /\ \E src \in { NullPointer, "A" }, dst \in { NullPointer, "B" }, n \in PixelCounts :
            CallConvertBGRAToRGBA(src, dst, n)
    \/ /\ After("ConvertBGRAToRGBA")
       /\ CallConvertBGRAToRGBA("B", "C", calls[1].pixel_count)
    \/ /\ calls = << >>
       /\ \E src \in { NullPointer, "A" }, dst \in { NullPointer, "B" }, n \in PixelCounts :
            CallConvertRGBAToRGB(src, dst, n)
    \/ /\ calls = << >>
       /\ \E data \in { NullPointer, "A" }, n \in PixelCounts :
            CallConvertBGRAToRGBAInPlace(data, n)
    \/ /\ After("ConvertBGRAToRGBAInPlace")
       /\ CallConvertBGRAToRGBAInPlace("A", calls[1].pixel_count)

ConverterSpec == ConverterInit /\ [][ConverterNext]_vars

(* ========================= threads and mutexes ========================= *)
(* The pipeline's threads step by step: Initialize starting the workers,   *)
(* WorkerThreadMain with its wait on task_condition_, the request's        *)
(* thread where it takes a mutex, callers of the statistics getters, and   *)
(* the destructor.  Each lock scope is two steps, taking the mutex and     *)
(* leaving the scope; of the buffer pool only its mutex_ is followed here. *)

(* ------------------------------ bounds --------------------------------- *)

\* Most worker threads the Initialize calls start between them.
MaxThreads == 3

(* ------------------------------ inputs --------------------------------- *)

\* Arguments of Initialize / InitializeUltraStreaming.
WorkerThreadArgs == { 0, 1, 2 }

\* What std::thread::hardware_concurrency() returns: 0 (not computable), or
\* the number of hardware threads.
HardwareConcurrency == { 0, 3 }

\* Threads that hold mutexes, beside the workers (which are numbered from
\* 1): the thread of the request, and a caller of GetStreamingStats and
\* GetMemoryPoolStats.
RequestThread == MaxThreads + 1
ReaderThread == MaxThreads + 2

(* ------------------------------ actions -------------------------------- *)

\* What no step of a thread changes.
beside_threads ==
    << zero_copy, available_buffers_, pool_stats_, steady_clock, caller, held,
       pool_history, function_call, hardware_concurrency, worker, total, results,
       chunk_width_, chunk_height_, max_memory_usage_mb_, compression_level_ >>

request_locals == << screenshot, chunks, chunks_submitted, idx, encoded_chunks, result >>

StillLocked(t) == t

\* The end of a lock scope (~lock_guard, ~unique_lock) of thread t, and the
\* wait on the condition variable: the mutex is free.
Unlocked(t) == NoThread

\* A newly started worker thread, at the top of WorkerThreadMain.
NewThread == [ pc |-> "test", task |-> NoTask ]

RECURSIVE Started(_)
Started(n) == IF n = 0 THEN << >> ELSE Append(Started(n - 1), NewThread)

\* Worker w at its next statement.
Goes(w, to) == [ worker_threads_ EXCEPT ![w].pc = to ]

\* The pipeline is in use: its destructor has not begun.
InUse == destructor.pc = "none"

\* Initialize(worker_threads), as InitializeUltraStreaming calls it on the
\* global pipeline.
Initialize(worker_threads) ==
    /\ InUse
    /\ LET count == IF worker_threads = 0 THEN Max(2, hardware_concurrency)
                    ELSE worker_threads
       IN  /\ Len(worker_threads_) + count <= MaxThreads
           /\ worker_thread_count_' = count
           /\ worker_threads_' = worker_threads_ \o Started(count)
           /\ stats_' = [ stats_ EXCEPT !.active_worker_threads = count ]
    /\ UNCHANGED << beside_threads, reports, request >>
    /\ UNCHANGED << task_queue_mutex_, stats_mutex_, mutex_, shutdown_requested_, destructor,
                    task_queue_, current_memory_usage_ >>

\* while (!shutdown_requested_)
ThreadTest(w) ==
    /\ Alive
    /\ w \in DOMAIN worker_threads_
    /\ worker_threads_[w].pc = "test"
    /\ worker_threads_' = Goes(w, IF shutdown_requested_ THEN "exited" ELSE "lock")
    /\ UNCHANGED << beside_threads, reports, request >>
    /\ UNCHANGED << task_queue_mutex_, stats_mutex_, mutex_, shutdown_requested_, destructor,
                    worker_thread_count_, task_queue_, current_memory_usage_, stats_ >>

\* std::unique_lock<std::mutex> lock(task_queue_mutex_), and the lock taken
\* again when the wait is over.
ThreadLock(w) ==
    /\ Alive
    /\ w \in DOMAIN worker_threads_
    /\ worker_threads_[w].pc \in { "lock", "woken" }
    /\ task_queue_mutex_ = NoThread
    /\ task_queue_mutex_' = w
    /\ worker_threads_' = Goes(w, "pred")
    /\ UNCHANGED << beside_threads, reports, request >>
    /\ UNCHANGED << stats_mutex_, mutex_, shutdown_requested_, destructor,
                    worker_thread_count_, task_queue_, current_memory_usage_, stats_ >>

\* The predicate of the wait, evaluated with the mutex held.
ThreadPredicate(w) ==
    /\ Alive
    /\ w \in DOMAIN worker_threads_
    /\ worker_threads_[w].pc = "pred"
    /\ worker_threads_' = Goes(w, IF task_queue_ # << >> \/ shutdown_requested_
                                  THEN "locked" ELSE "block")
    /\ UNCHANGED << beside_threads, reports, request >>
    /\ UNCHANGED << task_queue_mutex_, stats_mutex_, mutex_, shutdown_requested_, destructor,
                    worker_thread_count_, task_queue_, current_memory_usage_, stats_ >>

\* The predicate was false: wait(lock) releases the mutex and blocks, in one
\* step as seen by a notifier.
ThreadBlock(w) ==
    /\ Alive
    /\ w \in DOMAIN worker_threads_
    /\ worker_threads_[w].pc = "block"
    /\ task_queue_mutex_' = Unlocked(w)
    /\ worker_threads_' = Goes(w, "waiting")
    /\ UNCHANGED << beside_threads, reports, request >>
    /\ UNCHANGED << stats_mutex_, mutex_, shutdown_requested_, destructor,
                    worker_thread_count_, task_queue_, current_memory_usage_, stats_ >>

\* A wait may end without a notification.
SpuriousWake(w) ==
    /\ Alive
    /\ w \in DOMAIN worker_threads_
    /\ worker_threads_[w].pc = "waiting"
    /\ worker_threads_' = Goes(w, "woken")
    /\ UNCHANGED << beside_threads, reports, request >>
    /\ UNCHANGED << task_queue_mutex_, stats_mutex_, mutex_, shutdown_requested_, destructor,
                    worker_thread_count_, task_queue_, current_memory_usage_, stats_ >>

\* Past the wait, the mutex held: break on shutdown, else move the front
\* task out and pop; the scope of the lock ends.
ThreadTake(w) ==
    /\ Alive
    /\ w \in DOMAIN worker_threads_
    /\ worker_threads_[w].pc = "locked"
    /\ task_queue_mutex_' = Unlocked(w)
    /\ IF shutdown_requested_
         THEN /\ worker_threads_' = Goes(w, "exited")
              /\ UNCHANGED << task_queue_, futs >>
       ELSE IF task_queue_ # << >>
         THEN LET task == Head(task_queue_)
              IN  /\ worker_threads_' =
                        [ worker_threads_ EXCEPT ![w] = [ pc |-> "add", task |-> task ] ]
                  /\ task_queue_' = QueueAfterPop(task_queue_)
                  /\ futs' = [ futs EXCEPT ![task.req][task.task_id + 1].takes = @ + 1 ]
       ELSE /\ worker_threads_' = Goes(w, "test")
            /\ UNCHANGED << task_queue_, futs >>
    /\ UNCHANGED << beside_threads, reports >>
    /\ UNCHANGED << pc, screenshot, chunks, chunks_submitted, idx, encoded_chunks, result >>
    /\ UNCHANGED << stats_mutex_, mutex_, shutdown_requested_, destructor,
                    worker_thread_count_, current_memory_usage_, stats_ >>

\* UpdateMemoryUsage: current_memory_usage_.fetch_add(delta), before the
\* encode (+chunk_memory) and after it (-chunk_memory).
ThreadFetchAdd(w) ==
    /\ Alive
    /\ w \in DOMAIN worker_threads_
    /\ worker_threads_[w].pc \in { "add", "sub" }
    /\ LET chunk_memory == ChunkMemory(worker_threads_[w].task.chunk)
       IN  current_memory_usage_' =
              current_memory_usage_
                + (IF worker_threads_[w].pc = "add" THEN chunk_memory ELSE - chunk_memory)
    /\ worker_threads_' = Goes(w, IF worker_threads_[w].pc = "add" THEN "add_lock" ELSE "sub_lock")
    /\ UNCHANGED << beside_threads, reports, request >>
    /\ UNCHANGED << task_queue_mutex_, stats_mutex_, mutex_, shutdown_requested_, destructor,
                    worker_thread_count_, task_queue_, stats_ >>

\* UpdateMemoryUsage: std::lock_guard<std::mutex> lock(stats_mutex_).
ThreadStatsLock(w) ==
    /\ Alive
    /\ w \in DOMAIN worker_threads_
    /\ worker_threads_[w].pc \in { "add_lock", "sub_lock" }
    /\ stats_mutex_ = NoThread
    /\ stats_mutex_' = w
    /\ worker_threads_' = Goes(w, IF worker_threads_[w].pc = "add_lock" THEN "add_peak" ELSE "sub_peak")
    /\ UNCHANGED << beside_threads, reports, request >>
    /\ UNCHANGED << task_queue_mutex_, mutex_, shutdown_requested_, destructor,
                    worker_thread_count_, task_queue_, current_memory_usage_, stats_ >>

\* UpdateMemoryUsage: the peak statistic from the counter as it is now, and
\* the end of the function.
ThreadPeak(w) ==
    /\ Alive
    /\ w \in DOMAIN worker_threads_
    /\ worker_threads_[w].pc \in { "add_peak", "sub_peak" }
    /\ LET current_mb == current_memory_usage_ \div (1024 * 1024)
       IN  stats_' = IF current_mb > stats_.peak_memory_usage_mb
                     THEN [ stats_ EXCEPT !.peak_memory_usage_mb = current_mb ]
                     ELSE stats_
    /\ stats_mutex_' = Unlocked(w)
    /\ worker_threads_' = IF worker_threads_[w].pc = "add_peak" THEN Goes(w, "encode")
                          ELSE [ worker_threads_ EXCEPT ![w] = NewThread ]
    /\ UNCHANGED << beside_threads, reports, request >>
    /\ UNCHANGED << task_queue_mutex_, mutex_, shutdown_requested_, destructor,
                    worker_thread_count_, task_queue_, current_memory_usage_ >>

\* result_promise.set_value(encoded_data), or set_exception from the catch
\* handler, which returns without the second UpdateMemoryUsage.
Resolve(w, outcome) ==
    LET task == worker_threads_[w].task
        d == task.req
        i == task.task_id + 1
    IN  IF outcome = "throw"
          THEN /\ futs' = [ futs EXCEPT ![d][i] =
                              [ @ EXCEPT !.slot = "exception", !.sets = @ + 1 ] ]
               /\ worker_threads_' = [ worker_threads_ EXCEPT ![w] = NewThread ]
          ELSE /\ futs' = [ futs EXCEPT ![d][i] =
                              [ @ EXCEPT !.slot = "value",
                                         !.payload = IF outcome = "bytes"
                                                     THEN EncodedBytes(task.chunk)
                                                     ELSE << >>,
                                         !.sets = @ + 1 ] ]
               /\ worker_threads_' = Goes(w, "sub")

\* EncodeChunkAdvanced: the GPU encoder gives the bytes.
ThreadEncodeGPU(w) ==
    /\ Alive
    /\ w \in DOMAIN worker_threads_
    /\ worker_threads_[w].pc = "encode"
    /\ Resolve(w, "bytes")
    /\ UNCHANGED << beside_threads, reports >>
    /\ UNCHANGED << pc, screenshot, chunks, chunks_submitted, idx, encoded_chunks, result >>
    /\ UNCHANGED << task_queue_mutex_, stats_mutex_, mutex_, shutdown_requested_, destructor,
                    worker_thread_count_, task_queue_, current_memory_usage_, stats_ >>

\* EncodeChunkAdvanced, EncodeSIMD: AllocateScreenshotBuffer and later
\* ReturnScreenshotBuffer each take the pool's mutex_.
ThreadPoolLock(w) ==
    /\ Alive
    /\ w \in DOMAIN worker_threads_
    /\ worker_threads_[w].pc \in { "encode", "return_lock" }
    /\ mutex_ = NoThread
    /\ mutex_' = w
    /\ worker_threads_' = Goes(w, IF worker_threads_[w].pc = "encode" THEN "alloc" ELSE "return")
    /\ UNCHANGED << beside_threads, reports, request >>
    /\ UNCHANGED << task_queue_mutex_, stats_mutex_, shutdown_requested_, destructor,
                    worker_thread_count_, task_queue_, current_memory_usage_, stats_ >>

\* GetBuffer returns the buffer, or its allocation throws.
ThreadAlloc(w) ==
    /\ Alive
    /\ w \in DOMAIN worker_threads_
    /\ worker_threads_[w].pc = "alloc"
    /\ mutex_' = Unlocked(w)
    /\ \/ /\ worker_threads_' = Goes(w, "return_lock")
          /\ UNCHANGED futs
       \/ Resolve(w, "throw")
    /\ UNCHANGED << beside_threads, reports >>
    /\ UNCHANGED << pc, screenshot, chunks, chunks_submitted, idx, encoded_chunks, result >>
    /\ UNCHANGED << task_queue_mutex_, stats_mutex_, shutdown_requested_, destructor,
                    worker_thread_count_, task_queue_, current_memory_usage_, stats_ >>

\* ReturnBuffer returns; the encode then gives bytes or nothing, or throws.
ThreadReturn(w) ==
    /\ Alive
    /\ w \in DOMAIN worker_threads_
    /\ worker_threads_[w].pc = "return"
    /\ mutex_' = Unlocked(w)
    /\ \E outcome \in EncodeOutcomes : Resolve(w, outcome)
    /\ UNCHANGED << beside_threads, reports >>
    /\ UNCHANGED << pc, screenshot, chunks, chunks_submitted, idx, encoded_chunks, result >>
    /\ UNCHANGED << task_queue_mutex_, stats_mutex_, shutdown_requested_, destructor,
                    worker_thread_count_, task_queue_, current_memory_usage_, stats_ >>

\* CreateChunks: AllocateScreenshotBuffer for the next chunk takes the
\* pool's mutex_.
ChunkAllocLock(d) ==
    /\ InUse
    /\ pc[d] = "chunking"
    /\ mutex_ = NoThread
    /\ mutex_' = RequestThread
    /\ pc' = [ pc EXCEPT ![d] = "allocating" ]
    /\ UNCHANGED << beside_threads, reports, request_locals, futs >>
    /\ UNCHANGED << worker_threads_, task_queue_mutex_, stats_mutex_, shutdown_requested_,
                    destructor, worker_thread_count_, task_queue_, current_memory_usage_, stats_ >>

\* CreateChunks: GetBuffer returns and the chunk is pushed back; after the
\* last chunk, callback(20.0, ...).  Or the allocation throws.
ChunkAlloc(d) ==
    /\ pc[d] = "allocating"
    /\ mutex_' = Unlocked(RequestThread)
    /\ \E all \in { CreateChunks(UInt32(screenshot[d][1]), UInt32(screenshot[d][2]),
                                  chunk_width_, chunk_height_) } :
           \/ /\ chunks' = [ chunks EXCEPT ![d] = SubSeq(all, 1, Len(chunks[d]) + 1) ]
              /\ IF Len(chunks[d]) + 1 = Len(all)
                   THEN /\ pc' = [ pc EXCEPT ![d] = "submit" ]
                        /\ \E ret \in CallbackReturns : Report(d, Pct(20), ret, TRUE)
                   ELSE /\ pc' = [ pc EXCEPT ![d] = "chunking" ]
                        /\ UNCHANGED reports
              /\ UNCHANGED result
           \/ /\ Fail(d)
              /\ UNCHANGED chunks
    /\ UNCHANGED << beside_threads, screenshot, chunks_submitted, futs, idx, encoded_chunks >>
    /\ UNCHANGED << worker_threads_, task_queue_mutex_, stats_mutex_, shutdown_requested_,
                    destructor, worker_thread_count_, task_queue_, current_memory_usage_, stats_ >>

\* The submission loop up to the lock: the admission wait is over, the task
\* and its future exist, and task_queue_mutex_ is taken.
SubmitLock(d) ==
    /\ pc[d] = "submit"
    /\ task_queue_mutex_ = NoThread
    /\ LET chunk == chunks[d][chunks_submitted[d] + 1]
       IN  /\ CanAllocateMemory(ChunkMemory(chunk))
           /\ futs' = [ futs EXCEPT ![d] = Append(@, NewFuture(TaskId(chunks_submitted[d]), chunk)) ]
    /\ task_queue_mutex_' = RequestThread
    /\ pc' = [ pc EXCEPT ![d] = "pushing" ]
    /\ UNCHANGED << beside_threads, reports, request_locals >>
    /\ UNCHANGED << worker_threads_, stats_mutex_, mutex_, shutdown_requested_,
                    destructor, worker_thread_count_, task_queue_, current_memory_usage_, stats_ >>

\* task_queue_.push(std::move(task)), and the end of the lock's scope.
Push(d) ==
    /\ pc[d] = "pushing"
    /\ LET chunk == chunks[d][chunks_submitted[d] + 1]
       IN  task_queue_' = Append(task_queue_, [ req |-> d, task_id |-> TaskId(chunks_submitted[d]),
                                                chunk |-> chunk ])
    /\ task_queue_mutex_' = Unlocked(RequestThread)
    /\ pc' = [ pc EXCEPT ![d] = "notify" ]
    /\ UNCHANGED << beside_threads, reports, request_locals, futs >>
    /\ UNCHANGED << worker_threads_, stats_mutex_, mutex_, shutdown_requested_,
                    destructor, worker_thread_count_, current_memory_usage_, stats_ >>

NotifiedNone == UNCHANGED worker_threads_

\* The workers blocked in the wait.
Waiting == { w \in DOMAIN worker_threads_ : worker_threads_[w].pc = "waiting" }

\* task_condition_.notify_one(): one of the blocked workers, if there is
\* one, is woken.
NotifiedOne ==
    IF Waiting = { } THEN UNCHANGED worker_threads_
    ELSE \E w \in Waiting : worker_threads_' = Goes(w, "woken")

\* notify_one, chunks_submitted++, the progress callback, and where the loop
\* goes next.
Notify(d) ==
    /\ pc[d] = "notify"
    /\ NotifiedOne
    /\ LET submitted == chunks_submitted[d] + 1
       IN  /\ chunks_submitted' = [ chunks_submitted EXCEPT ![d] = submitted ]
           /\ \E ret \in CallbackReturns :
                Report(d, ChunkProgress(submitted, Len(chunks[d])), ret, TRUE)
           /\ IF submitted >= max_concurrent_chunks
              THEN /\ pc' = [ pc EXCEPT ![d] = "scan" ]
                   /\ idx' = [ idx EXCEPT ![d] = 1 ]
              ELSE /\ pc' = [ pc EXCEPT ![d] = AfterChunk(d, submitted) ]
                   /\ UNCHANGED idx
    /\ UNCHANGED << beside_threads, screenshot, chunks, futs, encoded_chunks, result >>
    /\ UNCHANGED << task_queue_mutex_, stats_mutex_, mutex_, shutdown_requested_,
                    destructor, worker_thread_count_, task_queue_, current_memory_usage_, stats_ >>

\* callback(90.0, ...), CombineEncodedChunks, and stats_mutex_ taken.
CombineLock(d) ==
    /\ pc[d] = "combine"
    /\ stats_mutex_ = NoThread
    /\ stats_mutex_' = RequestThread
    /\ result' = [ result EXCEPT ![d] =
                     CombineEncodedChunks(encoded_chunks[d], UInt32(screenshot[d][1]),
                                          UInt32(screenshot[d][2])) ]
    /\ pc' = [ pc EXCEPT ![d] = "counting" ]
    /\ \E ret \in CallbackReturns : Report(d, Pct(90), ret, TRUE)
    /\ UNCHANGED << beside_threads, screenshot, chunks, chunks_submitted, futs, idx, encoded_chunks >>
    /\ UNCHANGED << worker_threads_, task_queue_mutex_, mutex_, shutdown_requested_,
                    destructor, worker_thread_count_, task_queue_, current_memory_usage_, stats_ >>

\* The statistics update, and the end of the lock's scope.
Count(d) ==
    /\ pc[d] = "counting"
    /\ stats_' = [ stats_ EXCEPT
                     !.total_pixels_processed = @ + pixel_count(d),
                     !.total_chunks_processed = @ + Len(chunks[d]),
                     !.compression_ratio =
                         IF Len(result[d]) > 0
                         THEN (@ + data_size(d) \div Len(result[d])) \div 2
                         ELSE @ ]
    /\ stats_mutex_' = Unlocked(RequestThread)
    /\ pc' = [ pc EXCEPT ![d] = "finish" ]
    /\ UNCHANGED << beside_threads, reports, request_locals, futs >>
    /\ UNCHANGED << worker_threads_, task_queue_mutex_, mutex_, shutdown_requested_,
                    destructor, worker_thread_count_, task_queue_, current_memory_usage_ >>

\* GetStreamingStats: stats_mutex_ is taken, stats_ copied, and the scope
\* ends.
GetStreamingStats ==
    /\ Alive
    /\ \/ stats_mutex_ = NoThread /\ mutex_ # ReaderThread /\ stats_mutex_' = ReaderThread
       \/ stats_mutex_ = ReaderThread /\ stats_mutex_' = Unlocked(ReaderThread)
    /\ UNCHANGED << beside_threads, reports, request >>
    /\ UNCHANGED << worker_threads_, task_queue_mutex_, mutex_, shutdown_requested_,
                    destructor, worker_thread_count_, task_queue_, current_memory_usage_, stats_ >>

\* GetMemoryPoolStats: the pool's mutex_ is taken, its stats_ copied, and the
\* scope ends.
GetMemoryPoolStats ==
    /\ Alive
    /\ \/ mutex_ = NoThread /\ stats_mutex_ # ReaderThread /\ mutex_' = ReaderThread
       \/ mutex_ = ReaderThread /\ mutex_' = Unlocked(ReaderThread)
    /\ UNCHANGED << beside_threads, reports, request >>
    /\ UNCHANGED << worker_threads_, task_queue_mutex_, stats_mutex_, shutdown_requested_,
                    destructor, worker_thread_count_, task_queue_, current_memory_usage_, stats_ >>

\* No request is running on the pipeline and no getter is inside it.
Quiet ==
    /\ \A d \in Slots : pc[d] \in { "start", "unused", "done", "failed" }
    /\ ReaderThread \notin { stats_mutex_, mutex_ }

\* ~UltraStreamingPipeline: shutdown_requested_ = true, with no mutex held.
Shutdown ==
    /\ InUse
    /\ Quiet
    /\ shutdown_requested_' = TRUE
    /\ destructor' = [ destructor EXCEPT !.pc = "requested" ]
    /\ UNCHANGED << beside_threads, reports, request >>
    /\ UNCHANGED << worker_threads_, task_queue_mutex_, stats_mutex_, mutex_,
                    worker_thread_count_, task_queue_, current_memory_usage_, stats_ >>

\* ~UltraStreamingPipeline: task_condition_.notify_all() wakes every worker
\* that is blocked in the wait.
NotifyAll ==
    /\ destructor.pc = "requested"
    /\ worker_threads_' =
          [ w \in DOMAIN worker_threads_ |->
              IF w \in Waiting THEN [ worker_threads_[w] EXCEPT !.pc = "woken" ]
              ELSE worker_threads_[w] ]
    /\ destructor' = [ destructor EXCEPT !.pc = "joining" ]
    /\ UNCHANGED << beside_threads, reports, request >>
    /\ UNCHANGED << task_queue_mutex_, stats_mutex_, mutex_, shutdown_requested_,
                    worker_thread_count_, task_queue_, current_memory_usage_, stats_ >>

\* ~UltraStreamingPipeline: thread.join() returns once that thread has left
\* WorkerThreadMain; after the last one the destructor returns.
Join ==
    /\ destructor.pc = "joining"
    /\ IF destructor.joined = Len(worker_threads_)
         THEN destructor' = [ destructor EXCEPT !.pc = "destroyed" ]
         ELSE /\ worker_threads_[destructor.joined + 1].pc = "exited"
              /\ destructor' = [ destructor EXCEPT !.joined = @ + 1 ]
    /\ UNCHANGED << beside_threads, reports, request >>
    /\ UNCHANGED << worker_threads_, task_queue_mutex_, stats_mutex_, mutex_, shutdown_requested_,
                    worker_thread_count_, task_queue_, current_memory_usage_, stats_ >>

(* --------------------------- specifications ---------------------------- *)

\* The steps of worker w between two waits, but for the locks it takes.
ThreadRuns(w) ==
    \/ ThreadTest(w)
    \/ ThreadPredicate(w)
    \/ ThreadBlock(w)
    \/ ThreadTake(w)
    \/ ThreadFetchAdd(w)
    \/ ThreadPeak(w)
    \/ ThreadEncodeGPU(w)
    \/ ThreadAlloc(w)
    \/ ThreadReturn(w)

ThreadStep(w) ==
    \/ ThreadRuns(w)
    \/ ThreadLock(w)
    \/ ThreadStatsLock(w)
    \/ ThreadPoolLock(w)
    \/ SpuriousWake(w)

\* The steps of the request's thread on the tiling path.
TiledRequestStep(d) ==
    \/ TilingBegin(d)
    \/ ChunkAllocLock(d)
    \/ ChunkAlloc(d)
    \/ SubmitLock(d)
    \/ Push(d)
    \/ Notify(d)
    \/ ScanStep(d)
    \/ WaitForAll(d)
    \/ CollectStep(d)
    \/ CombineLock(d)
    \/ Count(d)
    \/ Finish(d)

\* A pipeline just constructed and configured (8192, 8192, 1024): no thread.
LifecycleInit ==
    /\ InitWith(0, { 0 })
    /\ << chunk_width_, chunk_height_, max_memory_usage_mb_ >> = << UInt32(8192), UInt32(8192), 1024 >>
    /\ NoZeroCopyBuffer /\ PoolConstructed /\ NoFunctionCall
    /\ worker_threads_ = << >>
    /\ task_queue_mutex_ = NoThread
    /\ stats_mutex_ = NoThread
    /\ shutdown_requested_ = FALSE
    /\ destructor = [ pc |-> "none", joined |-> 0 ]
    /\ hardware_concurrency \in HardwareConcurrency

\* Initialize calls, the workers they start, and the destructor.
LifecycleNext ==
    \/ \E worker_threads \in WorkerThreadArgs : Initialize(worker_threads)
    \/ \E w \in 1 .. MaxThreads :
         \/ ThreadTest(w)
         \/ ThreadLock(w)
         \/ ThreadPredicate(w)
         \/ ThreadBlock(w)
         \/ SpuriousWake(w)
         \/ ThreadTake(w)
    \/ Shutdown
    \/ NotifyAll
    \/ Join

LifecycleSpec == LifecycleInit /\ [][LifecycleNext]_vars

\* The same under fair scheduling: every thread that can run does, and a
\* thread that asks for a mutex again and again gets it.  No wait has to
\* end without a notification.
FairLifecycleSpec ==
    /\ LifecycleSpec
    /\ \A w \in 1 .. MaxThreads :
         /\ WF_vars(ThreadTest(w) \/ ThreadPredicate(w) \/ ThreadBlock(w) \/ ThreadTake(w))
         /\ SF_vars(ThreadLock(w))
    /\ WF_vars(NotifyAll)
    /\ WF_vars(Join)

\* A pipeline that Initialize(1) or Initialize(2) has started, configured
\* (8192, 8192, 1024), with one request launched and no shutdown.
ThreadInit ==
    /\ InitWith(0, { 1, 2 })
    /\ << chunk_width_, chunk_height_, max_memory_usage_mb_ >> = << UInt32(8192), UInt32(8192), 1024 >>
    /\ NoZeroCopyBuffer /\ PoolConstructed /\ NoFunctionCall
    /\ worker_threads_ = Started(worker_thread_count_)
    /\ task_queue_mutex_ = NoThread
    /\ stats_mutex_ = NoThread
    /\ shutdown_requested_ = FALSE
    /\ destructor = [ pc |-> "none", joined |-> 0 ]
    /\ hardware_concurrency = 0

\* Frames of one tile and of two.
TiledFrames == { << 8192, 8192 >>, << 12288, 8192 >> }

\* The workers and the thread of a request for a frame of one or two tiles.
WorkNext ==
    \/ \E w \in 1 .. MaxThreads : ThreadStep(w)
    \/ \E d \in Slots : Capture(d) /\ screenshot'[d] \in TiledFrames
    \/ \E d \in Slots : TiledRequestStep(d)

\* The same with a caller of the getters beside them.
ThreadNext ==
    \/ WorkNext
    \/ GetStreamingStats
    \/ GetMemoryPoolStats

ThreadSpec == ThreadInit /\ [][ThreadNext]_vars

\* The workers and the request under fair scheduling: a worker that can run
\* does, and one that asks for a mutex again and again gets it; the
\* request's thread, once it has taken a mutex, goes on to leave the scope
\* and to notify.  No wait has to end without a notification.
FairThreadSpec ==
    /\ ThreadInit
    /\ [][WorkNext]_vars
    /\ \A w \in 1 .. MaxWorkers :
         SF_vars(ThreadRuns(w) \/ ThreadLock(w) \/ ThreadStatsLock(w) \/ ThreadPoolLock(w))
    /\ WF_vars(\E d \in Slots : Push(d) \/ Notify(d) \/ Count(d))

(* ------------------------------- claims -------------------------------- *)

MaxUsageBytes == max_memory_usage_mb_ * 1024 * 1024

RECURSIVE SumBytes(_, _, _)
SumBytes(d, from, to) ==
    IF from > to THEN 0
    ELSE (IF futs[d][from].slot = "unset" THEN ChunkMemory(chunks[d][from]) ELSE 0)
         + SumBytes(d, from + 1, to)

\* The pixel bytes of the chunks of request d that have been submitted and
\* whose encoding has not finished (the result slot is not yet set).
OutstandingBytes(d) == SumBytes(d, 1, Len(futs[d]))

\* C1: the pixel bytes of the chunks submitted and not yet encoded never
\* exceed the configured memory budget.
C1_BudgetNeverExceeded ==
    \A d \in Slots : OutstandingBytes(d) <= MaxUsageBytes

\* The workers that hold task i (from 1) of request d.
Holders(d, i) ==
    { w \in Workers : worker[w].task.req = d /\ worker[w].task.task_id = i - 1 }

\* C2: every task pushed is taken by at most one worker, and the result slot
\* of a task a worker took is assigned exactly once: never twice, not before
\* the task is taken, and always by the time the worker has dropped the task.
C2_TakenOnceSetOnce ==
    \A d \in Slots : \A i \in 1 .. Len(futs[d]) :
       LET f == futs[d][i]
       IN  /\ f.takes <= 1
           /\ f.sets <= 1
           /\ Cardinality(Holders(d, i)) <= 1
           /\ (f.sets = 1) <=> (f.slot # "unset")
           /\ (f.takes = 0) => (f.sets = 0 /\ Holders(d, i) = {})
           /\ (f.takes = 1 /\ Holders(d, i) = {}) => (f.sets = 1)
           /\ \A w \in Holders(d, i) :
                 (f.sets = 1) <=> (worker[w].pc = "resolved")

\* C2's case: two workers, each of which took a task and set its result.
C2_Witness ==
    /\ worker_thread_count_ = 2
    /\ Len(futs[0]) >= 2
    /\ futs[0][1].takes = 1 /\ futs[0][1].sets = 1
    /\ futs[0][2].takes = 1 /\ futs[0][2].sets = 1
    /\ \E w \in Workers : worker[w].pc = "resolved" /\ worker[w].task.task_id = 0

\* C3: no result future is read (get()) more than once.
C3_EachFutureReadOnce ==
    \A d \in Slots : \A i \in 1 .. Len(futs[d]) : futs[d][i].reads <= 1

\* C4: a combined container is returned only when every chunk has a payload
\* and no payload is empty.
C4_NoContainerWithMissingPayload ==
    \A d \in Slots :
       (pc[d] = "done" /\ chunks[d] # << >>) =>
          /\ Len(encoded_chunks[d]) = Len(chunks[d])
          /\ \A i \in 1 .. Len(encoded_chunks[d]) : encoded_chunks[d][i] # << >>

\* C5: once the callback has returned stop on the tiling path, no further
\* chunk is submitted and the request does not resolve to a container.
C5_StopEndsSubmission ==
    /\ [] (\A d \in Slots : stop_requested[d] => pc[d] # "done")
    /\ [][ \A d \in Slots :
             stop_requested[d] => chunks_submitted'[d] = chunks_submitted[d] ]_vars

\* C6: whenever no worker is processing a task, the in-flight memory counter is 0.
C6_CounterZeroWhenIdle ==
    (\A w \in Workers : worker[w].pc = "idle") => current_memory_usage_ = 0

\* C7: every request eventually ends (returns, or the process ends): the
\* admission wait before a submission does not last forever.
C7_RequestEventuallyResolves ==
    <> (pc[0] \in {"done", "failed", "crashed"})

\* The payload part of a combined container: what follows the 12-byte header.
ContainerBody(container) == SubSeq(container, 13, Len(container))

\* C8: tasks are submitted in chunk order with task_id = chunk_id, and the
\* payloads of a combined container are the workers' results in chunk-id
\* order: the i-th is what the worker produced for chunk i - 1.
C8_PayloadsInChunkOrder ==
    /\ \A k \in 1 .. Len(task_queue_) :
          task_queue_[k].task_id = task_queue_[k].chunk.chunk_id
    /\ \A d \in Slots :
          /\ \A i \in 1 .. Len(futs[d]) :
                /\ futs[d][i].task_id = i - 1
                /\ futs[d][i].chunk_id = i - 1
                /\ futs[d][i].payload \in { << >>, EncodedBytes(chunks[d][i]) }
          /\ (pc[d] \in {"finish", "done"} /\ chunks[d] # << >>) =>
                ContainerBody(result[d]) =
                   Concat([ i \in 1 .. Len(chunks[d]) |-> futs[d][i].payload ])

\* C8's case: a three-chunk frame, all chunks encoded, combined and returned.
C8_Witness ==
    /\ pc[0] = "done"
    /\ Len(chunks[0]) = 3
    /\ ContainerBody(result[0]) = << 1, 2, 3 >>

\* C9 as stated: the percentages given to a request's callback never decrease.
C9_ProgressNeverDecreases ==
    [][ \A d \in Slots : last_progress'[d] >= last_progress[d] ]_vars

\* The step in which request d's catch handler (or failed capture) reports.
ErrorReport(d) == pc[d] # "failed" /\ pc'[d] = "failed"

\* C9, amended: the percentages never decrease from one milestone to the
\* next; only the error report breaks the order, and it always passes 0.
C9_MilestonesNeverDecrease ==
    [][ \A d \in Slots :
          /\ ErrorReport(d) => last_progress'[d] = Pct(0)
          /\ ~ ErrorReport(d) => last_progress'[d] >= last_progress[d] ]_vars

\* C9's case: a tiled request that reported every milestone up to 100.
C9_Witness ==
    /\ pc[0] = "done"
    /\ Len(chunks[0]) = 3
    /\ last_progress[0] = Pct(100)

\* C10: the overall percentage given to the caller's callback during a
\* multi-display request never decreases.
C10_OverallNeverDecreases ==
    [][ last_overall' >= last_overall ]_vars

\* C11: while a view of the parent is outstanding, dropping the parent does
\* not run the parent's release callback: the callback runs only in a step
\* that leaves no view outstanding.
C11_NoCallbackBeforeViewReleased ==
    [][deleter_calls' # deleter_calls
         => { i \in DOMAIN views' : views'[i].state = "alive" } = {}]_vars

\* C12: the release callback runs only in a step that takes ref_count_ from
\* 1 to 0, never while the count stays positive, and not a second time.
C12_CallbackOnceAtZero ==
    [][deleter_calls' # deleter_calls
         => (ref_count_ = 1 /\ ref_count_' = 0 /\ deleter_calls = 0)]_vars

\* C13: the release of a view gives back the parent reference CreateView
\* took for it (so n views made and released leave ref_count_ where it
\* was), and it runs the parent's callback only through that decrement
\* reaching zero.
C13_ViewReleaseReturnsReference ==
    [][\A i \in DOMAIN views :
         (views[i].state = "alive" /\ views'[i].state = "released")
           => /\ ref_count_' = ref_count_ - 1
              /\ (deleter_calls' # deleter_calls => ref_count_' = 0)]_vars

\* offset + length <= the parent's length, as numbers: the sum does not
\* carry out of 64 bits and is not greater than length.
WithinParent(offset, length) ==
    /\ Carry(offset, length, 1) = 0
    /\ ~SizeGreater(SizeAdd(offset, length), size_)

\* C14: CreateView returns empty whenever offset + length, as numbers,
\* exceeds the parent's length: every view it returned lies within the
\* parent's bytes.
C14_ViewsWithinParent ==
    \A i \in DOMAIN views :
        views[i].state # "null" => WithinParent(views[i].offset, views[i].size)

\* s without its element i.
Without(s, i) == [ k \in 1 .. (Len(s) - 1) |-> IF k < i THEN s[k] ELSE s[k + 1] ]

\* Thread t returns from GetBuffer in this step.
GetBufferReturns(t) == caller[t].pc = "get" /\ caller'[t].pc = "idle"

\* The buffers in the idle list.
IdleBuffers == { available_buffers_[i].buffer : i \in DOMAIN available_buffers_ }

C17_NoExpiredAfterGet ==
    [][\A t \in Threads :
         GetBufferReturns(t) =>
           /\ \A i \in DOMAIN available_buffers_' :
                caller[t].current_time - available_buffers_'[i].last_used_time
                  <= BUFFER_TIMEOUT_MS
           /\ \A i \in DOMAIN available_buffers_ :
                available_buffers_[i].buffer \in held'[t] \ held[t]
                  => caller[t].current_time - available_buffers_[i].last_used_time
                       <= BUFFER_TIMEOUT_MS]_vars

\* A GetBuffer that read the clock at 90 s has kept a buffer returned at
\* 30 s, and of the two buffers made the other is gone.
C17_Witness ==
    \E t \in Threads :
        /\ caller[t].pc = "get"
        /\ caller[t].current_time - BUFFER_TIMEOUT_MS = TickMs
        /\ Len(available_buffers_) = 1
        /\ caller[t].current_time - available_buffers_[1].last_used_time = BUFFER_TIMEOUT_MS
        /\ pool_stats_.total_buffers_created = 2
        /\ \A u \in Threads : held[u] = { }

\* C18: a ReturnBuffer on a pool of MAX_POOL_SIZE idle buffers removes
\* exactly one of them, one with the oldest last-used time, before it
\* appends the returned buffer; on a smaller pool it removes nothing.
C18_EvictsOldestWhenFull ==
    [][\A t \in Threads : \A buffer \in held[t] \ held'[t] :
         (available_buffers_' # << >>
            /\ available_buffers_'[Len(available_buffers_')].buffer = buffer)
         => LET kept == SubSeq(available_buffers_', 1, Len(available_buffers_') - 1)
            IN  IF Len(available_buffers_) >= MAX_POOL_SIZE
                  THEN \E j \in DOMAIN available_buffers_ :
                          /\ \A k \in DOMAIN available_buffers_ :
                               available_buffers_[j].last_used_time
                                 <= available_buffers_[k].last_used_time
                          /\ kept = Without(available_buffers_, j)
                  ELSE kept = available_buffers_]_vars

\* The pool is full, the buffer returned first is gone from it and the
\* buffer made last is its newest entry, returned later than its oldest.
C18_Witness ==
    /\ Len(available_buffers_) = MAX_POOL_SIZE
    /\ available_buffers_[1].buffer = 2
    /\ available_buffers_[MAX_POOL_SIZE].buffer = pool_stats_.total_buffers_created
    /\ available_buffers_[MAX_POOL_SIZE].last_used_time > available_buffers_[1].last_used_time
    /\ pool_stats_.memory_reuse_count = 0
    /\ \A t \in Threads : held[t] = { }

\* C19: a GetBuffer that hands out an idle buffer adds one to
\* memory_reuse_count and leaves total_buffers_created and
\* total_memory_allocated alone; one that allocates adds one to
\* total_buffers_created and leaves memory_reuse_count alone.
C19_GetBufferStatistics ==
    [][\A t \in Threads : \A buffer \in held'[t] \ held[t] :
         GetBufferReturns(t) =>
           IF buffer \in IdleBuffers
             THEN /\ pool_stats_'.memory_reuse_count = pool_stats_.memory_reuse_count + 1
                  /\ pool_stats_'.total_buffers_created = pool_stats_.total_buffers_created
                  /\ pool_stats_'.total_memory_allocated = pool_stats_.total_memory_allocated
             ELSE /\ pool_stats_'.total_buffers_created = pool_stats_.total_buffers_created + 1
                  /\ pool_stats_'.memory_reuse_count = pool_stats_.memory_reuse_count]_vars

\* GetBuffer(1000), ReturnBuffer, GetBuffer(1000): the one buffer made is
\* held again, taken from the pool once.
C19_Witness ==
    /\ pool_stats_.total_buffers_created = 1
    /\ pool_stats_.total_memory_allocated = 1000
    /\ pool_stats_.memory_reuse_count = 1
    /\ \E t \in Threads : held[t] = { 1 }

\* C20: a buffer is in one place at a time: held by one thread, or idle in
\* the pool once.
C20_ExclusiveOwnership ==
    /\ \A t, u \in Threads : t # u => held[t] \cap held[u] = { }
    /\ \A t \in Threads : held[t] \cap IdleBuffers = { }
    /\ \A i, j \in DOMAIN available_buffers_ :
         i # j => available_buffers_[i].buffer # available_buffers_[j].buffer

\* Both threads hold a buffer, one of them taken from the pool, while a
\* call of the other thread has the mutex.
C20_Witness ==
    /\ held[1] # { }
    /\ held[2] # { }
    /\ pool_stats_.memory_reuse_count > 0
    /\ mutex_ # NoThread

\* C21: peak_memory_usage is the most bytes that the buffers the pool
\* allocated had at one time while held or idle, at every point of the
\* pool's history: it equals that maximum, so it never exceeds it.
C21_PeakIsPeakConcurrent == pool_stats_.peak_memory_usage = live_peak

\* C22: a ReturnBuffer call with a null buffer, under any size and with the
\* pool full or not, leaves the idle list (the buffers, their recorded sizes
\* and their timestamps) and every statistic as they were.
C22_NullReturnIsNoOp ==
    [][ null_return' # null_return
          => UNCHANGED << available_buffers_, pool_stats_ >> ]_vars

\* A null buffer was returned under a size no idle buffer has, with the pool
\* full.
C22_Witness ==
    /\ null_return = [ size |-> 2000, full |-> TRUE ]
    /\ Len(available_buffers_) = MAX_POOL_SIZE

\* CreateChunks has returned: its chunks, and the frame and tile given.
Chunked == returned.function = "CreateChunks"
FrameW == Value(arguments.width)
FrameH == Value(arguments.height)

\* ceil(n / tile) for n >= 1 (n is below 2^31)
CeilDiv(n, tile) ==
    IF tile[1] >= LimbBase \div 2 THEN 1 ELSE (n - 1) \div Value(tile) + 1

\* Pixel (px, py) is in the chunk's rectangle.
InChunk(chunk, px, py) ==
    /\ chunk.x_offset <= px /\ px < chunk.x_offset + chunk.width
    /\ chunk.y_offset <= py /\ py < chunk.y_offset + chunk.height

\* C23: for any frame W x H (W, H >= 1) and any tile size (each side >= 64)
\* the rectangles of the chunks of CreateChunks cover [0,W) x [0,H) exactly,
\* no pixel is in two chunks, and there are ceil(W/Tw) * ceil(H/Th) chunks.
C23_ChunksTileTheFrame ==
    Chunked =>
      /\ \A px \in 0 .. (FrameW - 1), py \in 0 .. (FrameH - 1) :
           Cardinality({ k \in DOMAIN returned.value : InChunk(returned.value[k], px, py) }) = 1
      /\ \A k \in DOMAIN returned.value :
           /\ returned.value[k].x_offset + returned.value[k].width <= FrameW
           /\ returned.value[k].y_offset + returned.value[k].height <= FrameH
      /\ Len(returned.value) =
           CeilDiv(FrameW, arguments.chunk_width) * CeilDiv(FrameH, arguments.chunk_height)

\* C24: the chunks of CreateChunks are in row-major order, chunk_id is the
\* position in the list (from 0), and every chunk is clipped to the frame:
\* x_offset + width <= W, y_offset + height <= H, width >= 1, height >= 1.
\* A 100 x 100 frame with 64 x 64 tiles gives 64x64, 36x64, 64x36, 36x36.
C24_RowMajorAndClipped ==
    Chunked =>
      LET list == returned.value
      IN  /\ \A k \in DOMAIN list :
                /\ list[k].chunk_id = k - 1
                /\ list[k].x_offset + list[k].width <= FrameW
                /\ list[k].y_offset + list[k].height <= FrameH
                /\ list[k].width >= 1
                /\ list[k].height >= 1
          /\ \A i, j \in DOMAIN list :
                i < j => \/ list[i].y_offset < list[j].y_offset
                         \/ /\ list[i].y_offset = list[j].y_offset
                            /\ list[i].x_offset < list[j].x_offset
          /\ (/\ FrameW = 100 /\ FrameH = 100
              /\ arguments.chunk_width = UInt32(64) /\ arguments.chunk_height = UInt32(64))
               => [ k \in DOMAIN list |-> << list[k].width, list[k].height >> ]
                    = << << 64, 64 >>, << 36, 64 >>, << 64, 36 >>, << 36, 36 >> >>

\* The four chunks of the 100 x 100 frame.
C24_Witness ==
    /\ Chunked
    /\ FrameW = 100 /\ FrameH = 100
    /\ arguments.chunk_width = UInt32(64) /\ arguments.chunk_height = UInt32(64)
    /\ Len(returned.value) = 4

\* C25: in a chunk list of CreateChunks that is not empty exactly one chunk
\* has is_final_chunk, the last of the list.
C25_OneFinalChunkLast ==
    (Chunked /\ Len(returned.value) > 0) =>
      { k \in DOMAIN returned.value : returned.value[k].is_final_chunk }
        = { Len(returned.value) }

\* A grid of three rows and three columns, the last chunk final.
C25_Witness ==
    /\ Chunked
    /\ Len(returned.value) = 9
    /\ returned.value[9].is_final_chunk
    /\ returned.value[9].x_offset = 128 /\ returned.value[9].y_offset = 128

\* What SetChunkSize should make of a request.
Raised(v) == IF U32Less(v, UInt32(64)) THEN UInt32(64) ELSE v

\* C26: after any calls of SetChunkSize and ConfigureUltraStreaming, with any
\* arguments, the tile width and the tile height are 64 or more: each call
\* raises a requested side below 64 to 64 and keeps one of 64 or more.
C26_TileAtLeastMin ==
    /\ [](~ U32Less(chunk_width_, UInt32(64)) /\ ~ U32Less(chunk_height_, UInt32(64)))
    /\ [][ \A width \in ChunkDimArgs, height \in ChunkDimArgs :
             (\/ SetChunkSize(width, height)
              \/ \E max_memory_mb \in MemoryArgs, level \in LevelArgs :
                   ConfigureUltraStreaming(width, height, max_memory_mb, level))
               => /\ chunk_width_' = Raised(width)
                  /\ chunk_height_' = Raised(height) ]_vars

\* A call has left the least width (from a request of 64 or less) and the
\* largest height.
C26_Witness ==
    /\ chunk_width_ = UInt32(64)
    /\ chunk_height_ = UINT32_MAX

\* C27: a frame of fewer than 7680 x 4320 pixels is encoded in a single
\* pass: no chunk is made of it, no task is enqueued, the composer is not
\* run and the request returns what the codec returned; a frame of that many
\* pixels or more always takes the tiling path.
C27_SinglePassBelowThreshold ==
    \A d \in Slots :
      screenshot[d] # NoFrame =>
        IF screenshot[d][1] * screenshot[d][2] < 7680 * 4320
          THEN /\ pc[d] \in { "captured", "single", "done", "failed" }
               /\ chunks[d] = << >>
               /\ chunks_submitted[d] = 0
               /\ futs[d] = << >>
               /\ encoded_chunks[d] = << >>
               /\ \A k \in 1 .. Len(task_queue_) : task_queue_[k].req # d
               /\ \A w \in Workers : worker[w].task.req # d
               /\ pc[d] = "done" => result[d] \in { EncodedFrame, << >> }
          ELSE /\ pc[d] # "single"
               /\ pc[d] = "done" => SubSeq(result[d], 1, 4) = << 82, 73, 70, 70 >>

\* A small frame encoded in a single pass, the codec's bytes returned.
C27_Witness ==
    /\ pc[0] = "done"
    /\ screenshot[0] = SmallFrame
    /\ result[0] = EncodedFrame

\* C28: when the capture fails the request resolves to the error outcome
\* (an empty result) before any chunking work: no chunk and so no chunk
\* buffer from the pool, no task, and the in-flight memory counter and the
\* statistics as they were.
C28_CaptureFailureShortCircuits ==
    \A d \in ActiveSlots :
      (pc[d] # "start" /\ screenshot[d] = NoFrame) =>
        /\ pc[d] = "failed"
        /\ result[d] = << >>
        /\ chunks[d] = << >>
        /\ futs[d] = << >>
        /\ task_queue_ = << >>
        /\ current_memory_usage_ = 0
        /\ stats_ = [ total_pixels_processed |-> 0,
                      total_chunks_processed |-> 0,
                      peak_memory_usage_mb |-> 0,
                      compression_ratio |-> 0,
                      active_worker_threads |-> worker_thread_count_ ]
        /\ pool_stats_.total_buffers_created = 0

\* The capture failed and the request has reported 0.0 and returned.
C28_Witness ==
    /\ pc[0] = "failed"
    /\ screenshot[0] = NoFrame
    /\ last_progress[0] = Pct(0)

\* C29: for any list of encoded payloads, the empty list too, the combined
\* container starts with the fixed header ("RIFF", four bytes of size,
\* "WEBP") and the size, a 32-bit number, is the container's length in bytes
\* minus 8.
C29_HeaderAndSizeField ==
    returned.function \in { "CombineEncodedChunks", "CombineEncodedTiles" } =>
      LET container == returned.value
      IN  /\ Len(container) >= 12
          /\ SubSeq(container, 1, 4) = << 82, 73, 70, 70 >>
          /\ SubSeq(container, 9, 12) = << 87, 69, 66, 80 >>
          /\ SubSeq(container, 5, 8) = LE32(Len(container) - 8)

\* C30: the container that the tiling path returns (CombineEncodedChunks')
\* has an extended-canvas record ("VP8X") with the canvas width - 1 and
\* height - 1 in 24 bits each and the alpha flag set exactly when the frame
\* has alpha; for a 100 x 100 opaque frame: 100, 100, no alpha.
C30_CanvasRecord ==
    returned.function = "CombineEncodedChunks" =>
      LET container == returned.value
      IN  \E i \in 1 .. (Len(container) - 17) :
            /\ SubSeq(container, i, i + 3) = << 86, 80, 56, 88 >>
            /\ ((container[i + 8] \div 16) % 2 = 1) <=> arguments.has_alpha
            /\ SubSeq(container, i + 12, i + 14) = LE24(U32Sub(arguments.total_width, UInt32(1)))
            /\ SubSeq(container, i + 15, i + 17) = LE24(U32Sub(arguments.total_height, UInt32(1)))

\* A call that went past the first test of its function: it had pixels to
\* convert and no null pointer.
Converted(c) ==
    c.pixel_count > 0 /\ c.src # NullPointer /\ c.dst # NullPointer

\* The offsets of the first n pixels of `width` bytes each.
PixelBytes(n, width) == 0 .. (n * width - 1)

\* C31: whatever vector unit g_cpu_info names (SSE2, AVX2 or NEON) and
\* whatever the pixel count, a call of ConvertBGRAToRGBA or ConvertRGBAToRGB
\* leaves the destination byte for byte as the scalar implementation
\* (ConvertBGRAToRGBA_C, ConvertRGBAToRGB_C) leaves it on the same input.
C31_VectorEqualsScalar ==
    \A k \in DOMAIN calls :
       LET c == calls[k]
           bytes == c.before[c.src]
           run == Run(c.before[c.dst])
       IN  Converted(c) =>
             /\ c.function = "ConvertBGRAToRGBA" =>
                  c.after[c.dst] = ConvertBGRAToRGBA_C(bytes, run, c.pixel_count).dst
             /\ c.function = "ConvertRGBAToRGB" =>
                  c.after[c.dst] = ConvertRGBAToRGB_C(bytes, run, c.pixel_count).dst

\* C32: a call for n pixels reads only the 4n bytes of the n source pixels
\* and writes only the bytes of the n destination pixels (4n, or 3n for RGBA
\* to RGB), whichever implementation runs; the two converters write every
\* one of those bytes, and no other byte of the caller's buffers changes.
C32_AccessWithinPixels ==
    \A k \in DOMAIN calls :
       LET c == calls[k]
           in == PixelBytes(c.pixel_count, 4)
           out == PixelBytes(c.pixel_count,
                             IF c.function = "ConvertRGBAToRGB" THEN 3 ELSE 4)
       IN  /\ ~ c.crashed
           /\ c.loads \subseteq in
           /\ c.stores \subseteq out
           /\ (Converted(c) /\ c.function # "ConvertBGRAToRGBAInPlace") => c.stores = out
           /\ \A name \in BufferNames, j \in 1 .. BufferBytes :
                 c.after[name][j] # c.before[name][j] => (name = c.dst /\ (j - 1) \in out)

\* A vector loop has run and left a tail to the scalar loop: SSE2 on 7
\* pixels or more with 3 left over, into a separate destination.
C32_Witness ==
    \E k \in DOMAIN calls :
       /\ Converted(calls[k])
       /\ calls[k].function = "ConvertRGBAToRGB"
       /\ g_cpu_info.has_sse2 /\ ~ g_cpu_info.has_avx2
       /\ calls[k].pixel_count > 4 /\ calls[k].pixel_count % 4 = 3
       /\ calls[k].after # calls[k].before

\* C33: a call of ConvertBGRAToRGBA, ConvertRGBAToRGB or
\* ConvertBGRAToRGBAInPlace with pixel_count = 0 or with a null source or
\* destination returns with every byte of the caller's buffers as it was.
C33_DegenerateIsNoOp ==
    \A k \in DOMAIN calls :
       LET c == calls[k]
       IN  (c.pixel_count = 0 \/ c.src = NullPointer \/ c.dst = NullPointer) =>
              (~ c.crashed /\ c.after = c.before /\ c.stores = { })

\* A call with a null destination and pixels to convert has returned, and
\* the source it was given is not empty.
C33_Witness ==
    \E k \in DOMAIN calls :
       /\ calls[k].dst = NullPointer /\ calls[k].src = "A"
       /\ calls[k].pixel_count > 0
       /\ calls[k].function = "ConvertBGRAToRGBA"
       /\ memory["A"] # << >>


\* C40: ConvertBGRAToRGBA and ConvertBGRAToRGBAInPlace leave the green and
\* alpha byte of each of the n pixels as the source has them; and after
\* ConvertBGRAToRGBAInPlace twice on A, or ConvertBGRAToRGBA from A to B and
\* then from B to C, the n pixels (of A, of C) are the original bytes of A.
C40_SwapIsInvolution ==
    /\ \A k \in DOMAIN calls :
          LET c == calls[k]
          IN  (Converted(c) /\ c.function # "ConvertRGBAToRGB") =>
                 \A i \in 0 .. (c.pixel_count - 1) :
                    /\ c.after[c.dst][i * 4 + 2] = c.before[c.src][i * 4 + 2]
                    /\ c.after[c.dst][i * 4 + 4] = c.before[c.src][i * 4 + 4]
    /\ Len(calls) = 2 =>
          \A j \in 1 .. (calls[1].pixel_count * 4) :
             calls[2].after[calls[2].dst][j] = calls[1].before[calls[1].src][j]


\* Request d has run the statistics update that follows CombineEncodedChunks.
Combined(d) == pc[d] \in { "finish", "done" } /\ chunks[d] # << >>

\* The step is request d's statistics update.
CombineStepOf(d) == pc[d] = "combine" /\ pc'[d] = "finish"

\* C35: total_pixels_processed and total_chunks_processed never decrease;
\* the step of a tiled request that follows its combine adds width x height
\* and the number of its chunks, and no other step changes them, so a request
\* that fails leaves them alone; and a lone request has added to them once
\* if it got that far and not at all otherwise.
C35_CountersAddOnceOnCombine ==
    /\ [][ /\ stats_'.total_pixels_processed >= stats_.total_pixels_processed
           /\ stats_'.total_chunks_processed >= stats_.total_chunks_processed
           /\ \A d \in ActiveSlots :
                 CombineStepOf(d) =>
                    /\ stats_'.total_pixels_processed =
                          stats_.total_pixels_processed + screenshot[d][1] * screenshot[d][2]
                    /\ stats_'.total_chunks_processed =
                          stats_.total_chunks_processed + Len(chunks[d])
           /\ (\A d \in ActiveSlots : ~ CombineStepOf(d)) =>
                 /\ stats_'.total_pixels_processed = stats_.total_pixels_processed
                 /\ stats_'.total_chunks_processed = stats_.total_chunks_processed ]_vars
    /\ [](total = 0 =>
            /\ stats_.total_pixels_processed =
                 (IF Combined(0) THEN screenshot[0][1] * screenshot[0][2] ELSE 0)
            /\ stats_.total_chunks_processed =
                 (IF Combined(0) THEN Len(chunks[0]) ELSE 0))

\* A request of three chunks has returned its container and the counters
\* hold its pixels and its chunks.
C35_Witness ==
    /\ pc[0] = "done"
    /\ Len(chunks[0]) = 3
    /\ stats_.total_chunks_processed = 3
    /\ stats_.total_pixels_processed = 8192 * 20480

\* The tasks of request d that have been submitted and have not completed
\* (their result slot is not yet set).
InFlight(d) == { i \in DOMAIN futs[d] : futs[d][i].slot = "unset" }

\* C38: the tasks of a request that are submitted and not yet completed
\* never number more than max_concurrent_chunks.
C38_InFlightWithinLimit ==
    \A d \in ActiveSlots : Cardinality(InFlight(d)) <= max_concurrent_chunks

\* C39: once Initialize (or InitializeUltraStreaming) has been called, however
\* often, the worker threads that run are as many as worker_thread_count_ and
\* as stats_.active_worker_threads say, and a call that asks for 0 threads
\* makes that number max(2, hardware concurrency).
C39_WorkersMatchCount ==
    /\ [] ((InUse /\ Len(worker_threads_) > 0)
             => /\ Len(worker_threads_) = worker_thread_count_
                /\ Len(worker_threads_) = stats_.active_worker_threads)
    /\ [][ Initialize(0) => worker_thread_count_' = Max(2, hardware_concurrency) ]_vars

\* C36: the destructor of a pipeline whose threads are scheduled fairly
\* returns: every worker leaves its wait, sees the flag and is joined.
C36_DestructorReturns ==
    (destructor.pc = "requested") ~> (destructor.pc = "destroyed")

\* The tasks of a request for a frame of at most two tiles.
TaskNumbers == 1 .. 2

\* Task i of the request waits in task_queue_.
Queued(i) == \E k \in DOMAIN task_queue_ : task_queue_[k].task_id = TaskId(i - 1)

\* A worker has taken task i and its result slot is set.
Processed(i) ==
    /\ i \in DOMAIN futs[0]
    /\ futs[0][i].takes > 0
    /\ futs[0][i].slot # "unset"

\* C37: with a worker running, no shutdown, threads scheduled fairly and
\* encodes that return (or throw), every task pushed to task_queue_ is in
\* the end taken by a worker and its result slot set, as long as the
\* process lives.
C37_PushedTaskIsProcessed ==
    \A i \in TaskNumbers : Queued(i) ~> (Processed(i) \/ ~ Alive)

\* The three mutexes: of the task queue, of the statistics, of the buffer pool.
Mutexes == << task_queue_mutex_, stats_mutex_, mutex_ >>

\* The mutexes thread t holds.
HeldBy(t) == { m \in DOMAIN Mutexes : Mutexes[m] = t }

\* C34: no thread, worker, request or caller of a getter, ever holds two of
\* the three mutexes at once.
C34_NoTwoMutexesAtOnce ==
    \A t \in (1 .. MaxThreads) \cup { RequestThread, ReaderThread } :
       Cardinality(HeldBy(t)) <= 1

\* The three mutexes are held at the same time, the queue's by the request
\* that pushes a task and the statistics' by a worker.
C34_Witness ==
    /\ task_queue_mutex_ = RequestThread
    /\ stats_mutex_ \in DOMAIN worker_threads_
    /\ mutex_ # NoThread

\* Both tasks of a two-tile frame were queued and have been processed, on a
\* pipeline with two workers.
C37_Witness ==
    /\ Len(worker_threads_) = 2
    /\ task_queue_ = << >>
    /\ Processed(1)
    /\ Processed(2)

====
